---- MODULE Spec2Model ----
(***************************************************************************)
(* A model of the korni .env parser (src/src/parser.rs): the cursor, the   *)
(* three value sub-parsers, Parser::next_entry and its two drivers         *)
(* (EnvIterator::next, Parser::parse), with Environment::from_entries      *)
(* (src/src/env.rs) and the Display of Error (src/src/error.rs).           *)
(*                                                                         *)
(* The input is a sequence of bytes (0..255).  Offsets are 0-based as in   *)
(* the source: the byte at offset i is bytes[i + 1].  Option<T> is a       *)
(* sequence of length 0 (None) or 1 (Some).                                *)
(***************************************************************************)
EXTENDS Integers, Sequences, FiniteSets, TLC

\* ------------------------------------------------------------------------
\* Bytes the parser compares against
\* ------------------------------------------------------------------------
LF == 10
CR == 13
TAB == 9
SP == 32
HASH == 35
EQ == 61
SQ == 39
DQ == 34
BSL == 92
DOLLAR == 36
LowerN == 110
LowerR == 114
LowerT == 116

\* b"\xEF\xBB\xBF", the UTF-8 encoding of U+FEFF
BomBytes == <<239, 187, 191>>

\* b"export"
ExportBytes == <<101, 120, 112, 111, 114, 116>>

HWS == {SP, TAB}

\* (a digit test that accepts no byte: the key's first byte goes unchecked)
IsAsciiDigit_none(b) == FALSE

\* u8::is_ascii_digit
IsAsciiDigit(b) == b \in 48..57

\* b.is_ascii_alphanumeric() || b == b'_'
IsKeyByte(b) == b \in (48..57) \cup (65..90) \cup (97..122) \cup {95}

\* ------------------------------------------------------------------------
\* Cursor primitives
\* ------------------------------------------------------------------------
\* self.bytes[i]
At(bytes, i) == bytes[i + 1]

\* &self.input[a..b]
Slice(bytes, a, b) == SubSeq(bytes, a + 1, b)

\* self.cursor >= self.bytes.len()
is_eof(bytes, c) == c >= Len(bytes)

\* self.bytes[self.cursor]
peek(bytes, c) == At(bytes, c)

\* !self.is_eof() && self.peek() == b
PeekIs(bytes, c, b) == ~is_eof(bytes, c) /\ peek(bytes, c) = b

\* !self.is_eof() && (self.peek() == b' ' || self.peek() == b'\t')
PeekIsHws(bytes, c) == ~is_eof(bytes, c) /\ peek(bytes, c) \in HWS

\* remaining.iter().position(|&b| b in S), as an absolute offset;
\* Len(bytes) when there is none (the callers' unwrap_or(remaining.len()))
FindIn(bytes, from, S) ==
    LET hits == {i \in from..(Len(bytes) - 1) : At(bytes, i) \in S}
    IN IF hits = {} THEN Len(bytes)
       ELSE CHOOSE i \in hits : \A j \in hits : i <= j

\* remaining.iter().position(|&b| b not in S), as an absolute offset
FindNotIn(bytes, from, S) ==
    LET hits == {i \in from..(Len(bytes) - 1) : At(bytes, i) \notin S}
    IN IF hits = {} THEN Len(bytes)
       ELSE CHOOSE i \in hits : \A j \in hits : i <= j

skip_horizontal_whitespace(bytes, c) ==
    IF c < Len(bytes) THEN FindNotIn(bytes, c, HWS) ELSE c

consume_key(bytes, c) ==
    IF c < Len(bytes)
    THEN LET hits == {i \in c..(Len(bytes) - 1) : ~IsKeyByte(At(bytes, i))}
         IN IF hits = {} THEN Len(bytes)
            ELSE CHOOSE i \in hits : \A j \in hits : i <= j
    ELSE c

\* (a skip_to_newline that forgets to advance)
skip_to_newline_stay(bytes, c) == c

skip_to_newline(bytes, c) ==
    IF c < Len(bytes) THEN FindIn(bytes, c, {LF}) ELSE c

\* (a recover_line that steps over a newline without looking for one)
recover_line_unchecked(bytes, c) == skip_to_newline(bytes, c) + 1

recover_line(bytes, c) ==
    LET c1 == skip_to_newline(bytes, c)
    IN IF ~is_eof(bytes, c1) THEN c1 + 1 ELSE c1

\* if !self.is_eof() && self.peek() == b'\n' { self.cursor += 1; }
EatNewline(bytes, c) == IF PeekIs(bytes, c, LF) THEN c + 1 ELSE c

\* ------------------------------------------------------------------------
\* Entry / Error data model
\* ------------------------------------------------------------------------
None == <<>>
Some(x) == <<x>>

Position(offset) == [line |-> 0, col |-> 0, offset |-> offset]

SpanFromOffsets(s, e) == [start |-> Position(s), end |-> Position(e)]

ErrorEntry(err, offset, detail) ==
    [kind |-> "Error", err |-> err, offset |-> offset, detail |-> detail]

CommentEntry(s, e) == [kind |-> "Comment", span |-> SpanFromOffsets(s, e)]

\* KeyValuePair::new_fast
new_fast(key, value, owned, quote, is_exported, is_comment) ==
    [kind |-> "Pair", key |-> key, key_span |-> None,
     value |-> value, owned |-> owned, value_span |-> None,
     quote |-> quote, open_quote_pos |-> None, close_quote_pos |-> None,
     equals_pos |-> None, is_exported |-> is_exported, is_comment |-> is_comment]

\* (a KeyValuePair::new that takes the end of the raw value for the closing
\* quote)
new_pair_closeend(key, key_start, value, owned, value_start, raw_len, quote, is_exported, is_comment) ==
    LET key_end == key_start + Len(key)
        value_end == value_start + raw_len
    IN [kind |-> "Pair", key |-> key,
        key_span |-> Some(SpanFromOffsets(key_start, key_end)),
        value |-> value, owned |-> owned,
        value_span |-> Some(SpanFromOffsets(value_start, value_end)),
        quote |-> quote,
        open_quote_pos |-> IF quote # "None" THEN Some(Position(value_start)) ELSE None,
        close_quote_pos |-> IF quote # "None" THEN Some(Position(value_end)) ELSE None,
        equals_pos |-> Some(Position(key_end)),
        is_exported |-> is_exported, is_comment |-> is_comment]

\* KeyValuePair::new
new_pair(key, key_start, value, owned, value_start, raw_len, quote, is_exported, is_comment) ==
    LET key_end == key_start + Len(key)
        value_end == value_start + raw_len
    IN [kind |-> "Pair", key |-> key,
        key_span |-> Some(SpanFromOffsets(key_start, key_end)),
        value |-> value, owned |-> owned,
        value_span |-> Some(SpanFromOffsets(value_start, value_end)),
        quote |-> quote,
        open_quote_pos |-> IF quote # "None" THEN Some(Position(value_start)) ELSE None,
        close_quote_pos |-> IF quote # "None" THEN Some(Position(value_end - 1)) ELSE None,
        equals_pos |-> Some(Position(key_end)),
        is_exported |-> is_exported, is_comment |-> is_comment]

\* Result<ParsedValue, Error> together with the cursor the sub-parser leaves
\* (hang: the sub-parser's loop repeats a state and so never returns)
PvOk(c, value, owned, value_start, raw_len, quote) ==
    [ok |-> TRUE, hang |-> FALSE, cursor |-> c, value |-> value, owned |-> owned,
     value_start |-> value_start, raw_len |-> raw_len, quote |-> quote]

\* (an UnclosedQuote that reports where the content starts, not the quote)
PvErr_content(c, offset, quote_type) ==
    [ok |-> FALSE, hang |-> FALSE, cursor |-> c,
     error |-> ErrorEntry("UnclosedQuote", offset + 1, quote_type)]

PvErr(c, offset, quote_type) ==
    [ok |-> FALSE, hang |-> FALSE, cursor |-> c,
     error |-> ErrorEntry("UnclosedQuote", offset, quote_type)]

PvHang(c) == [ok |-> FALSE, hang |-> TRUE, cursor |-> c]

\* ------------------------------------------------------------------------
\* Value sub-parsers
\* ------------------------------------------------------------------------
\* (a single-quoted scan in which a backslash protects the quote after it)
parse_single_quoted_value_escaped(bytes, start) ==
    LET content_start == start + 1
        hits == {i \in content_start..(Len(bytes) - 1) :
                    At(bytes, i) = SQ /\ At(bytes, i - 1) # BSL}
        pos == IF hits = {} THEN Len(bytes) ELSE CHOOSE i \in hits : \A j \in hits : i <= j
    IN IF pos < Len(bytes)
       THEN PvOk(pos + 1, Slice(bytes, content_start, pos), FALSE,
                 start, (pos + 1) - start, "Single")
       ELSE PvErr(Len(bytes), start, "single")

\* Parser::parse_single_quoted_value
parse_single_quoted_value(bytes, start) ==
    LET content_start == start + 1
        pos == FindIn(bytes, content_start, {SQ})
    IN IF pos < Len(bytes)
       THEN PvOk(pos + 1, Slice(bytes, content_start, pos), FALSE,
                 start, (pos + 1) - start, "Single")
       ELSE PvErr(Len(bytes), start, "single")

\* String::push(b as char): a byte below 0x80 is one byte of the String, a
\* byte b >= 0x80 is the char U+00b, which the String holds as two bytes
PushByteAsChar(value, b) ==
    IF b < 128 THEN Append(value, b)
    ELSE value \o <<192 + (b \div 64), 128 + (b % 64)>>

\* the match on the byte after a backslash (parser.rs 411-422)
PushEscape(value, c) ==
    CASE c = LowerN -> Append(value, LF)
      [] c = LowerR -> Append(value, CR)
      [] c = LowerT -> Append(value, TAB)
      [] c = BSL -> Append(value, BSL)
      [] c = DQ -> Append(value, DQ)
      [] c = DOLLAR -> Append(value, DOLLAR)
      [] OTHER -> PushByteAsChar(Append(value, BSL), c)

\* the slow path loop of parse_double_quoted_value
RECURSIVE DoubleQuotedSlow(_, _, _, _)
DoubleQuotedSlow(bytes, start, c, value) ==
    IF is_eof(bytes, c) THEN PvErr(c, start, "double")
    ELSE LET b == peek(bytes, c)
         IN IF b = BSL /\ c + 1 < Len(bytes)
            THEN DoubleQuotedSlow(bytes, start, c + 2, PushEscape(value, peek(bytes, c + 1)))
            ELSE IF b = DQ
            THEN PvOk(c + 1, value, TRUE, start, (c + 1) - start, "Double")
            ELSE DoubleQuotedSlow(bytes, start, c + 1, PushByteAsChar(value, b))

parse_double_quoted_value(bytes, start) ==
    LET content_start == start + 1
        pos == FindIn(bytes, content_start, {DQ, BSL})
    IN IF pos < Len(bytes) /\ At(bytes, pos) = DQ
       THEN PvOk(pos + 1, Slice(bytes, content_start, pos), FALSE,
                 start, (pos + 1) - start, "Double")
       ELSE DoubleQuotedSlow(bytes, start, content_start, <<>>)

\* (a line scan that takes every # for the start of a comment)
ScanLine_anyhash(bytes, from, line_start) ==
    LET pos == FindIn(bytes, from, {LF, CR, HASH})
    IN IF pos >= Len(bytes) THEN [cursor |-> Len(bytes), comment_idx |-> None]
       ELSE IF At(bytes, pos) = HASH
       THEN [cursor |-> pos, comment_idx |-> Some(pos)]
       ELSE [cursor |-> pos, comment_idx |-> None]

\* the inner while loop of parse_unquoted_value (parser.rs 455-492): the
\* offset where the scan of this line stops, and the inline comment start
RECURSIVE ScanLine(_, _, _)
ScanLine(bytes, from, line_start) ==
    LET pos == FindIn(bytes, from, {LF, CR, HASH})
    IN IF pos >= Len(bytes) THEN [cursor |-> Len(bytes), comment_idx |-> None]
       ELSE IF At(bytes, pos) = HASH
       THEN IF pos > line_start /\ At(bytes, pos - 1) \in HWS
            THEN [cursor |-> pos, comment_idx |-> Some(pos - 1)]
            ELSE ScanLine(bytes, pos + 1, line_start)
       ELSE [cursor |-> pos, comment_idx |-> None]

\* while end > line_start && bytes[end - 1] is space or tab { end -= 1 }
RECURSIVE TrimEnd(_, _, _)
TrimEnd(bytes, line_start, end) ==
    IF end > line_start /\ At(bytes, end - 1) \in HWS
    THEN TrimEnd(bytes, line_start, end - 1)
    ELSE end

\* chunk[..chunk.find(' ' or '\t')], the chunk itself when there is none
CutAtWhitespace(chunk) ==
    LET hits == {i \in 1..Len(chunk) : chunk[i] \in HWS}
    IN IF hits = {} THEN chunk
       ELSE SubSeq(chunk, 1, (CHOOSE i \in hits : \A j \in hits : i <= j) - 1)

\* (a finish that cuts at the first whitespace after a continuation too)
UnquotedFinish_cut(start, c, value, has_continuation) ==
    PvOk(c, CutAtWhitespace(value), TRUE, start, c - start, "None")

\* the code after the loop of parse_unquoted_value (parser.rs 546-561)
UnquotedFinish(start, c, value, has_continuation) ==
    PvOk(c, IF ~has_continuation THEN CutAtWhitespace(value) ELSE value, TRUE,
         start, c - start, "None")

RECURSIVE UnquotedLoop(_, _, _, _, _)

\* (a continuation decision in which an empty line ends the value)
UnquotedLine_noempty(bytes, start, line_start, value, has_continuation, cur, end1) ==
    LET is_continuation ==
            end1 > line_start /\ At(bytes, end1 - 1) = BSL /\ ~is_eof(bytes, cur)
        end == IF is_continuation /\ end1 > line_start THEN end1 - 1 ELSE end1
        chunk == Slice(bytes, line_start, end)
        c2 == EatNewline(bytes, IF PeekIs(bytes, cur, CR) THEN cur + 1 ELSE cur)
    IN IF ~has_continuation /\ ~is_continuation
       THEN PvOk(cur, CutAtWhitespace(chunk), FALSE, start, end - start, "None")
       ELSE IF ~is_continuation
       THEN UnquotedFinish(start, c2, value \o chunk, TRUE)
       ELSE IF has_continuation /\ c2 = line_start
       THEN PvHang(c2)
       ELSE UnquotedLoop(bytes, start, c2, value \o chunk, TRUE)

\* (a continuation decision without `&& !self.is_eof()`)
UnquotedLine_eof(bytes, start, line_start, value, has_continuation, cur, end1) ==
    LET is_continuation ==
            \/ end1 > line_start /\ At(bytes, end1 - 1) = BSL
            \/ has_continuation /\ end1 = line_start
        end == IF is_continuation /\ end1 > line_start THEN end1 - 1 ELSE end1
        chunk == Slice(bytes, line_start, end)
        c2 == EatNewline(bytes, IF PeekIs(bytes, cur, CR) THEN cur + 1 ELSE cur)
    IN IF ~has_continuation /\ ~is_continuation
       THEN PvOk(cur, CutAtWhitespace(chunk), FALSE, start, end - start, "None")
       ELSE IF ~is_continuation
       THEN UnquotedFinish(start, c2, value \o chunk, TRUE)
       ELSE IF has_continuation /\ c2 = line_start
       THEN PvHang(c2)
       ELSE UnquotedLoop(bytes, start, c2, value \o chunk, TRUE)

\* one line of the loop of parse_unquoted_value after its scan stopped at cur
\* and end was trimmed to end1 (parser.rs 500-543)
UnquotedLine(bytes, start, line_start, value, has_continuation, cur, end1) ==
    LET is_continuation ==
            \/ end1 > line_start /\ At(bytes, end1 - 1) = BSL /\ ~is_eof(bytes, cur)
            \/ has_continuation /\ end1 = line_start
        end == IF is_continuation /\ end1 > line_start THEN end1 - 1 ELSE end1
        chunk == Slice(bytes, line_start, end)
        c2 == EatNewline(bytes, IF PeekIs(bytes, cur, CR) THEN cur + 1 ELSE cur)
    IN IF ~has_continuation /\ ~is_continuation
       THEN PvOk(cur, CutAtWhitespace(chunk), FALSE, start, end - start, "None")
       ELSE IF ~is_continuation
       THEN UnquotedFinish(start, c2, value \o chunk, TRUE)
       ELSE IF has_continuation /\ c2 = line_start
       THEN PvHang(c2)   \* same cursor, value and flag again: the loop never ends
       ELSE UnquotedLoop(bytes, start, c2, value \o chunk, TRUE)

\* let mut end = comment_idx.unwrap_or(self.cursor), trimmed (parser.rs 493-498)
UnquotedScanned(bytes, start, line_start, value, has_continuation, scan) ==
    UnquotedLine(bytes, start, line_start, value, has_continuation, scan.cursor,
                 TrimEnd(bytes, line_start,
                         IF scan.comment_idx # None THEN scan.comment_idx[1] ELSE scan.cursor))

\* the outer loop of parse_unquoted_value (parser.rs 444-544)
UnquotedLoop(bytes, start, c, value, has_continuation) ==
    IF is_eof(bytes, c) THEN UnquotedFinish(start, c, value, has_continuation)
    ELSE UnquotedScanned(bytes, start, c, value, has_continuation, ScanLine(bytes, c, c))

parse_unquoted_value(bytes, start) == UnquotedLoop(bytes, start, start, <<>>, FALSE)

\* the dispatch on the first byte of the value (parser.rs 207-213, 287-301)
parse_value(bytes, value_start) ==
    IF PeekIs(bytes, value_start, SQ) THEN parse_single_quoted_value(bytes, value_start)
    ELSE IF PeekIs(bytes, value_start, DQ) THEN parse_double_quoted_value(bytes, value_start)
    ELSE parse_unquoted_value(bytes, value_start)

\* (a construction that never attaches positions)
MakePair_fast(opts, key_str, key_start, pv, is_exported, is_comment) ==
    new_fast(key_str, pv.value, pv.owned, pv.quote, is_exported, is_comment)

\* (a construction that passes no export flag on to a Pair with positions)
MakePair_dropexport(opts, key_str, key_start, pv, is_exported, is_comment) ==
    IF opts.track_positions
    THEN new_pair(key_str, key_start, pv.value, pv.owned, pv.value_start, pv.raw_len,
                  pv.quote, FALSE, is_comment)
    ELSE new_fast(key_str, pv.value, pv.owned, pv.quote, is_exported, is_comment)

\* the construction of the Pair from a ParsedValue (parser.rs 217-236, 305-324)
MakePair(opts, key_str, key_start, pv, is_exported, is_comment) ==
    IF opts.track_positions
    THEN new_pair(key_str, key_start, pv.value, pv.owned, pv.value_start, pv.raw_len,
                  pv.quote, is_exported, is_comment)
    ELSE new_fast(key_str, pv.value, pv.owned, pv.quote, is_exported, is_comment)

\* ------------------------------------------------------------------------
\* Parser::next_entry
\* ------------------------------------------------------------------------
\* what one call leaves: the cursor, and Some(entry) or None; hang when the
\* call never returns
Ret(c, result) == [cursor |-> c, result |-> result, hang |-> FALSE]

Hang(c) == [cursor |-> c, result |-> None, hang |-> TRUE]

\* (an export check that does not look at the byte after the keyword)
ExportPrefix_anynext(bytes, c) ==
    IF /\ c + 6 < Len(bytes)
       /\ Slice(bytes, c, c + 6) = ExportBytes
    THEN [cursor |-> skip_horizontal_whitespace(bytes, c + 6), is_exported |-> TRUE]
    ELSE [cursor |-> c, is_exported |-> FALSE]

\* the check for the "export" keyword (parser.rs 122-129, 258-265): the
\* cursor after the prefix, and is_exported
ExportPrefix(bytes, c) ==
    IF /\ c + 6 < Len(bytes)
       /\ Slice(bytes, c, c + 6) = ExportBytes
       /\ At(bytes, c + 6) \in HWS
    THEN [cursor |-> skip_horizontal_whitespace(bytes, c + 6), is_exported |-> TRUE]
    ELSE [cursor |-> c, is_exported |-> FALSE]

\* (a try_parse_commented_pair that leaves the cursor where the failed value
\* parse left it)
CommentedValue_norollback(bytes, opts, saved, is_exported, key_start, key_end, pv) ==
    IF pv.hang THEN [cursor |-> pv.cursor, pair |-> None, hang |-> TRUE]
    ELSE IF pv.ok
    THEN [cursor |-> skip_to_newline(bytes, pv.cursor),
          pair |-> Some(MakePair(opts, Slice(bytes, key_start, key_end), key_start, pv,
                                 is_exported, TRUE)),
          hang |-> FALSE]
    ELSE [cursor |-> pv.cursor, pair |-> None, hang |-> FALSE]

\* (a try_parse_commented_pair that restores the saved cursor after a
\* commented-out pair too)
CommentedValue_rewind(bytes, opts, saved, is_exported, key_start, key_end, pv) ==
    IF pv.hang THEN [cursor |-> pv.cursor, pair |-> None, hang |-> TRUE]
    ELSE IF pv.ok
    THEN [cursor |-> saved,
          pair |-> Some(MakePair(opts, Slice(bytes, key_start, key_end), key_start, pv,
                                 is_exported, TRUE)),
          hang |-> FALSE]
    ELSE [cursor |-> saved, pair |-> None, hang |-> FALSE]

\* try_parse_commented_pair once the value is parsed (parser.rs 303-333)
CommentedValue(bytes, opts, saved, is_exported, key_start, key_end, pv) ==
    IF pv.hang THEN [cursor |-> pv.cursor, pair |-> None, hang |-> TRUE]
    ELSE IF pv.ok
    THEN [cursor |-> skip_to_newline(bytes, pv.cursor),
          pair |-> Some(MakePair(opts, Slice(bytes, key_start, key_end), key_start, pv,
                                 is_exported, TRUE)),
          hang |-> FALSE]
    ELSE [cursor |-> saved, pair |-> None, hang |-> FALSE]

\* try_parse_commented_pair once the key is consumed (parser.rs 271-301)
CommentedKey(bytes, opts, saved, is_exported, key_start, key_end) ==
    IF key_start = key_end \/ is_eof(bytes, key_end) \/ peek(bytes, key_end) # EQ
    THEN [cursor |-> saved, pair |-> None, hang |-> FALSE]
    ELSE IF IsAsciiDigit(At(bytes, key_start))
    THEN [cursor |-> saved, pair |-> None, hang |-> FALSE]
    ELSE CommentedValue(bytes, opts, saved, is_exported, key_start, key_end,
                        parse_value(bytes, key_end + 1))

CommentedExport(bytes, opts, saved, ex) ==
    CommentedKey(bytes, opts, saved, ex.is_exported, ex.cursor, consume_key(bytes, ex.cursor))

\* the cursor after it when the pair is returned, the saved cursor otherwise
try_parse_commented_pair(bytes, opts, saved) ==
    CommentedExport(bytes, opts, saved, ExportPrefix(bytes, saved))

\* what the variable definition branch makes of a line: an entry and the
\* cursor after the line, or skip (no entry, the loop continues at cursor)
LineEntry(c, entry) == [skip |-> FALSE, hang |-> FALSE, cursor |-> c, entry |-> entry]

\* (an error whose description names the key letter it stands at)
Fail_leaky(bytes, err, offset, detail, at) ==
    LineEntry(recover_line(bytes, at),
              ErrorEntry(err, offset,
                         IF offset < Len(bytes) /\ At(bytes, offset) = 75 THEN "K"
                         ELSE IF offset < Len(bytes) /\ At(bytes, offset) = 78 THEN "N"
                         ELSE detail))

\* let err = Entry::Error(..); self.recover_line(); return Some(err)
Fail(bytes, err, offset, detail, at) ==
    LineEntry(recover_line(bytes, at), ErrorEntry(err, offset, detail))

\* the match on the parsed value and the rest of the line (parser.rs 215-248)
AssignmentValue(bytes, opts, is_exported, key_start, key_end, pv) ==
    IF pv.hang THEN [skip |-> FALSE, hang |-> TRUE, cursor |-> pv.cursor]
    ELSE LineEntry(EatNewline(bytes, skip_to_newline(bytes, pv.cursor)),
                   IF pv.ok
                   THEN MakePair(opts, Slice(bytes, key_start, key_end), key_start, pv,
                                 is_exported, FALSE)
                   ELSE pv.error)

\* (separator checks that report a double equals at the first =)
AssignmentSep_firsteq(bytes, opts, is_exported, key_start, key_end, c3) ==
    IF PeekIsHws(bytes, key_end) /\ PeekIs(bytes, c3, EQ)
    THEN Fail(bytes, "ForbiddenWhitespace", key_start, "between key and equals", c3)
    ELSE IF is_eof(bytes, c3) \/ peek(bytes, c3) # EQ
    THEN Fail(bytes, "Expected", c3, "'='", c3)
    ELSE IF PeekIs(bytes, c3 + 1, EQ)
    THEN Fail(bytes, "DoubleEquals", c3, "", c3 + 1)
    ELSE IF PeekIsHws(bytes, c3 + 1)
    THEN Fail(bytes, "ForbiddenWhitespace", c3 + 1, "after equals", c3 + 1)
    ELSE AssignmentValue(bytes, opts, is_exported, key_start, key_end,
                         parse_value(bytes, c3 + 1))

\* (separator checks that let a space or tab after = start the value)
AssignmentSep_afterok(bytes, opts, is_exported, key_start, key_end, c3) ==
    IF PeekIsHws(bytes, key_end) /\ PeekIs(bytes, c3, EQ)
    THEN Fail(bytes, "ForbiddenWhitespace", key_start, "between key and equals", c3)
    ELSE IF is_eof(bytes, c3) \/ peek(bytes, c3) # EQ
    THEN Fail(bytes, "Expected", c3, "'='", c3)
    ELSE IF PeekIs(bytes, c3 + 1, EQ)
    THEN Fail(bytes, "DoubleEquals", c3 + 1, "", c3 + 1)
    ELSE AssignmentValue(bytes, opts, is_exported, key_start, key_end,
                         parse_value(bytes, c3 + 1))

\* (separator checks that look for a second = before anything else)
AssignmentSep_equalsfirst(bytes, opts, is_exported, key_start, key_end, c3) ==
    IF PeekIs(bytes, c3, EQ) /\ PeekIs(bytes, c3 + 1, EQ)
    THEN Fail(bytes, "DoubleEquals", c3 + 1, "", c3 + 1)
    ELSE IF PeekIsHws(bytes, key_end) /\ PeekIs(bytes, c3, EQ)
    THEN Fail(bytes, "ForbiddenWhitespace", key_start, "between key and equals", c3)
    ELSE IF is_eof(bytes, c3) \/ peek(bytes, c3) # EQ
    THEN Fail(bytes, "Expected", c3, "'='", c3)
    ELSE IF PeekIsHws(bytes, c3 + 1)
    THEN Fail(bytes, "ForbiddenWhitespace", c3 + 1, "after equals", c3 + 1)
    ELSE AssignmentValue(bytes, opts, is_exported, key_start, key_end,
                         parse_value(bytes, c3 + 1))

\* the checks around '=', c3 the cursor after the whitespace that follows
\* the key (parser.rs 161-213)
AssignmentSep(bytes, opts, is_exported, key_start, key_end, c3) ==
    IF PeekIsHws(bytes, key_end) /\ PeekIs(bytes, c3, EQ)
    THEN Fail(bytes, "ForbiddenWhitespace", key_start, "between key and equals", c3)
    ELSE IF is_eof(bytes, c3) \/ peek(bytes, c3) # EQ
    THEN Fail(bytes, "Expected", c3, "'='", c3)
    ELSE IF PeekIs(bytes, c3 + 1, EQ)
    THEN Fail(bytes, "DoubleEquals", c3 + 1, "", c3 + 1)
    ELSE IF PeekIsHws(bytes, c3 + 1)
    THEN Fail(bytes, "ForbiddenWhitespace", c3 + 1, "after equals", c3 + 1)
    ELSE AssignmentValue(bytes, opts, is_exported, key_start, key_end,
                         parse_value(bytes, c3 + 1))

\* (key checks that report every line without key bytes as an empty key)
AssignmentKey_strict(bytes, opts, is_exported, key_start, key_end) ==
    IF key_start = key_end
    THEN Fail(bytes, "Generic", key_start, "Empty key", key_end)
    ELSE IF IsAsciiDigit(At(bytes, key_start))
    THEN Fail(bytes, "InvalidKey", key_start, "Key starts with digit", key_end)
    ELSE AssignmentSep(bytes, opts, is_exported, key_start, key_end,
                       IF PeekIsHws(bytes, key_end)
                       THEN skip_horizontal_whitespace(bytes, key_end) ELSE key_end)

\* the checks of the key (parser.rs 136-172)
AssignmentKey(bytes, opts, is_exported, key_start, key_end) ==
    IF key_start = key_end
    THEN IF PeekIs(bytes, key_end, EQ)
         THEN Fail(bytes, "Generic", key_start, "Empty key", key_end)
         ELSE [skip |-> TRUE, hang |-> FALSE, cursor |-> recover_line(bytes, key_end)]
    ELSE IF IsAsciiDigit(At(bytes, key_start))
    THEN Fail(bytes, "InvalidKey", key_start, "Key starts with digit", key_end)
    ELSE AssignmentSep(bytes, opts, is_exported, key_start, key_end,
                       IF PeekIsHws(bytes, key_end)
                       THEN skip_horizontal_whitespace(bytes, key_end) ELSE key_end)

AssignmentExport(bytes, opts, ex) ==
    AssignmentKey(bytes, opts, ex.is_exported, ex.cursor, consume_key(bytes, ex.cursor))

\* the variable definition branch of the loop body (parser.rs 119-248)
Assignment(bytes, opts, c) == AssignmentExport(bytes, opts, ExportPrefix(bytes, c))

\* the loop of next_entry (parser.rs 83-250), entered with the cursor at c0.
\* The loop keeps no state but the cursor, so an iteration that continues
\* with the cursor where it found it is a loop that never ends.
RECURSIVE MainLoop(_, _, _)

\* continue, with the cursor at c
Continue(bytes, opts, c0, c) == IF c = c0 THEN Hang(c) ELSE MainLoop(bytes, opts, c)

\* the outcome a of the variable definition branch
AssignmentLine(bytes, opts, c0, a) ==
    IF a.hang THEN Hang(a.cursor)
    ELSE IF a.skip THEN Continue(bytes, opts, c0, a.cursor)
    ELSE Ret(a.cursor, Some(a.entry))

\* a '#' at c1 with include_comments, t what try_parse_commented_pair made
\* of the line (parser.rs 100-110)
CommentLine(bytes, c1, t) ==
    IF t.hang THEN Hang(t.cursor)
    ELSE IF t.pair # None THEN Ret(t.cursor, t.pair)
    ELSE Ret(skip_to_newline(bytes, t.cursor),
             Some(CommentEntry(c1, skip_to_newline(bytes, t.cursor))))

\* the loop body after the first skip_horizontal_whitespace (parser.rs 90-249)
LoopBody(bytes, opts, c0, c1) ==
    IF is_eof(bytes, c1) THEN Ret(c1, None)
    ELSE IF peek(bytes, c1) = LF THEN Continue(bytes, opts, c0, c1 + 1)
    ELSE IF peek(bytes, c1) = HASH
    THEN IF opts.include_comments
         THEN CommentLine(bytes, c1,
                          try_parse_commented_pair(
                              bytes, opts, skip_horizontal_whitespace(bytes, c1 + 1)))
         ELSE Continue(bytes, opts, c0, EatNewline(bytes, skip_to_newline(bytes, c1)))
    ELSE AssignmentLine(bytes, opts, c0, Assignment(bytes, opts, c1))

MainLoop(bytes, opts, c0) ==
    IF is_eof(bytes, c0) THEN Ret(c0, None)
    ELSE LoopBody(bytes, opts, c0, skip_horizontal_whitespace(bytes, c0))

\* self.input.find('\u{FEFF}'): the offset of the first U+FEFF, as Option
FindBom(bytes) ==
    LET hits == {i \in 0..(Len(bytes) - 3) : Slice(bytes, i, i + 3) = BomBytes}
    IN IF hits = {} THEN None
       ELSE Some(CHOOSE i \in hits : \A j \in hits : i <= j)

\* (a parser that does not know the leading BOM)
StartsWithBom_never(bytes) == FALSE

\* self.bytes.starts_with(b"\xEF\xBB\xBF")
StartsWithBom(bytes) == Len(bytes) >= 3 /\ Slice(bytes, 0, 3) = BomBytes

\* one call of next_entry on a parser p = [input, options, cursor, bom_checked]
next_entry(p) ==
    LET c0 == IF ~p.bom_checked /\ StartsWithBom(p.input) THEN p.cursor + 3 ELSE p.cursor
        idx == FindBom(p.input)
    IN IF ~p.bom_checked /\ idx # None /\ idx[1] > 0
       THEN Ret(c0, Some(ErrorEntry("InvalidBom", idx[1], "")))
       ELSE MainLoop(p.input, p.options, c0)

\* Parser::parse_internal: next_entry until it returns None.  The parser it
\* leaves and the Vec it returns; hang when a call never returns.
RECURSIVE parse_internal(_, _)

\* while let Some(entry) = r { entries.push(entry) }
ParseStep(p, entries, r) ==
    IF r.hang \/ r.result = None
    THEN [cursor |-> r.cursor, entries |-> entries, hang |-> r.hang]
    ELSE parse_internal([p EXCEPT !.cursor = r.cursor, !.bom_checked = TRUE],
                        Append(entries, r.result[1]))

\* (a parse_internal with `if let` for `while let`: it stops after one entry)
ParseOnceStep(entries, r) ==
    [cursor |-> r.cursor,
     entries |-> IF r.result = None THEN entries ELSE Append(entries, r.result[1]),
     hang |-> r.hang]

parse_internal_once(p, entries) == ParseOnceStep(entries, next_entry(p))

parse_internal(p, entries) == ParseStep(p, entries, next_entry(p))

\* ------------------------------------------------------------------------
\* Display for Error (error.rs)
\* ------------------------------------------------------------------------
\* the decimal digits of a usize, as "{}" writes it
DigitChars == <<"0", "1", "2", "3", "4", "5", "6", "7", "8", "9">>

RECURSIVE Decimal(_)
Decimal(n) ==
    IF n < 10 THEN <<DigitChars[n + 1]>>
    ELSE Decimal(n \div 10) \o <<DigitChars[(n % 10) + 1]>>

\* fmt::Display for Error: the pieces that write! puts out, in order
Display(e) ==
    CASE e.err = "UnclosedQuote" ->
            <<"Unclosed ", e.detail, " quote starting at byte ">> \o Decimal(e.offset)
      [] e.err = "InvalidKey" ->
            <<"Invalid key at byte ">> \o Decimal(e.offset) \o <<": ", e.detail>>
      [] e.err = "ForbiddenWhitespace" ->
            <<"Whitespace not allowed ", e.detail, " at byte ">> \o Decimal(e.offset)
      [] e.err = "DoubleEquals" ->
            <<"Double equals sign detected at byte ">> \o Decimal(e.offset)
                \o <<". Use quotes: KEY=\"=val\"">>
      [] e.err = "InvalidBom" ->
            <<"BOM found at invalid position (byte ">> \o Decimal(e.offset) \o <<")">>
      [] e.err = "Expected" ->
            <<"Expected ", e.detail, " at byte ">> \o Decimal(e.offset)
      [] e.err = "Generic" ->
            <<e.detail, " at byte ">> \o Decimal(e.offset)

\* ------------------------------------------------------------------------
\* Environment (env.rs)
\* ------------------------------------------------------------------------
\* (an insertion that keeps the Pair the table already has for the key)
InsertEntry_keepfirst(env, entry) ==
    IF entry.kind = "Pair"
    THEN [env EXCEPT !.pairs = @ @@ (entry.key :> entry)]
    ELSE IF entry.kind = "Comment"
    THEN [env EXCEPT !.comments = Append(@, entry.span)]
    ELSE [env EXCEPT !.errors = Append(@, entry)]

\* the match on one entry in the loop of from_entries (env.rs 28-38);
\* HashMap::insert replaces the value the key had
InsertEntry(env, entry) ==
    IF entry.kind = "Pair"
    THEN [env EXCEPT !.pairs = (entry.key :> entry) @@ @]
    ELSE IF entry.kind = "Comment"
    THEN [env EXCEPT !.comments = Append(@, entry.span)]
    ELSE [env EXCEPT !.errors = Append(@, entry)]

\* for entry in entries { .. }
RECURSIVE InsertAll(_, _)
InsertAll(env, entries) ==
    IF entries = <<>> THEN env
    ELSE InsertAll(InsertEntry(env, Head(entries)), Tail(entries))

\* Environment::from_entries; pairs is the HashMap, a function on its keys
from_entries(entries) ==
    InsertAll([pairs |-> [k \in {} |-> None], comments |-> <<>>, errors |-> <<>>], entries)

\* Environment::get
get(env, key) ==
    IF key \in DOMAIN env.pairs THEN Some(env.pairs[key].value) ELSE None

\* ------------------------------------------------------------------------
\* Inputs
\* ------------------------------------------------------------------------
\* the UTF-8 bytes of the characters the inputs are written with
Utf8 ==
    [ch \in {"K", "N", "a", "b", "v", "x", "c", "n", "1", "_", "=", " ", "\t", "#", "'",
             "\"", "\\", "$", "-", "LF", "CR", "BOM", "e-acute", "export"} |->
        CASE ch = "K" -> <<75>>
          [] ch = "N" -> <<78>>
          [] ch = "a" -> <<97>>
          [] ch = "b" -> <<98>>
          [] ch = "v" -> <<118>>
          [] ch = "x" -> <<120>>
          [] ch = "c" -> <<99>>
          [] ch = "n" -> <<LowerN>>
          [] ch = "1" -> <<49>>
          [] ch = "_" -> <<95>>
          [] ch = "=" -> <<EQ>>
          [] ch = " " -> <<SP>>
          [] ch = "\t" -> <<TAB>>
          [] ch = "#" -> <<HASH>>
          [] ch = "'" -> <<SQ>>
          [] ch = "\"" -> <<DQ>>
          [] ch = "\\" -> <<BSL>>
          [] ch = "$" -> <<DOLLAR>>
          [] ch = "-" -> <<45>>
          [] ch = "LF" -> <<LF>>
          [] ch = "CR" -> <<CR>>
          [] ch = "BOM" -> BomBytes
          [] ch = "e-acute" -> <<195, 169>>
          [] ch = "export" -> ExportBytes]

\* str::as_bytes of a text given as a sequence of characters
RECURSIVE as_bytes(_)
as_bytes(text) ==
    IF text = <<>> THEN <<>> ELSE Utf8[Head(text)] \o as_bytes(Tail(text))

\* the texts of at most n lines of the catalogue, each line ended by LF
RECURSIVE Docs(_, _)
Docs(Cat, n) ==
    IF n = 0 THEN {<<>>}
    ELSE {<<>>} \cup {l \o <<LF>> \o d : l \in Cat, d \in Docs(Cat, n - 1)}

\* ... and the same texts without the newline at the end of the last line
Texts(Cat, n) ==
    Docs(Cat, n) \cup {SubSeq(d, 1, Len(d) - 1) : d \in Docs(Cat, n) \ {<<>>}}

\* the texts of at most n characters of the alphabet
RECURSIVE Words(_, _)
Words(Alphabet, n) ==
    IF n = 0 THEN {<<>>}
    ELSE {<<>>} \cup {Utf8[ch] \o w : ch \in Alphabet, w \in Words(Alphabet, n - 1)}

MaxLines == 3

MaxBody == 3

MaxGrammarLines == 2

\* assignments, continuation, blank, comment and junk lines, a U+FEFF
GeneralLines ==
    { as_bytes(l) : l \in {
        <<"K", "=", "v">>,
        <<"K", "=", "a", "\\">>,
        <<"b">>,
        <<>>,
        <<" ", "#", "c">>,
        <<"#", "N", "=", "b", "\\">>,
        <<"-">>,
        <<"BOM", "K", "=", "v">> } }

\* one line of each Error kind of an assignment line, and lines without error
ErrorLines ==
    { as_bytes(l) : l \in {
        <<"K", "=", "v">>,
        <<"#", "c">>,
        <<"K", "=", "'", "x">>,
        <<"K", "=", "\"", "x">>,
        <<"1", "K", "=", "v">>,
        <<"K", " ", "=", "v">>,
        <<"K", "=", " ", "v">>,
        <<"K", "=", "=", "v">>,
        <<"K">>,
        <<"=", "v">> } }

\* lines with and without U+FEFF
BomLines ==
    { as_bytes(l) : l \in {
        <<"K", "=", "v">>,
        <<"BOM", "N", "=", "1">>,
        <<"K", "=", "a", "BOM">>,
        <<"#", "c">>,
        <<"K", "=", "'", "x">> } }

\* lines without U+FEFF, to be parsed after a leading U+FEFF
LeadLines ==
    { as_bytes(l) : l \in {
        <<"K", "=", "v">>,
        <<"K", "=", "a", "\\">>,
        <<"#", "N", "=", "'", "x", "'">>,
        <<"1", "=">> } }

\* lines the two drivers are compared on
DriverLines ==
    { as_bytes(l) : l \in {
        <<"K", "=", "v">>,
        <<"K", "=", "a", "\\">>,
        <<"#", "N", "=", "=">>,
        <<"a", "BOM">> } }

\* unquoted values that continue on the next line, and what may follow them
ContinuationLines ==
    { as_bytes(l) : l \in {
        <<"K", "=", "a", "\\">>,
        <<"K", "=", "v", " ", "\\">>,
        <<"K", "=", "v", " ", "\\", " ", "#", "c">>,
        <<"K", "=", "a", "\\", "CR">>,
        <<"b">>,
        <<" ", "b">>,
        <<>> } }

\* unquoted values with a literal # and with an inline comment
HashLines ==
    { as_bytes(l) : l \in {
        <<"K", "=", "a", "#", "b">>,
        <<"K", "=", "#", "a">>,
        <<"K", "=", "v", " ", "#", "c">>,
        <<"K", "=", "v", "\t", "#", "c", "\\">>,
        <<"K", "=", "v", " ", " ", "#", "#">>,
        <<"N", "=", "1">> } }

\* values followed by junk on the same line
JunkLines ==
    { as_bytes(l) : l \in {
        <<"K", "=", "v", " ", "x", "=", "'">>,
        <<"K", "=", "v", "\t", "x", "\\">>,
        <<"K", "=", "'", "a", "'", "x", "\\">>,
        <<"K", "=", "\"", "a", "\"", "\"", "#">>,
        <<"K", "=", "v">>,
        <<"N", "=", "1">> } }

\* # lines that are no assignment when read after the #, and an active line
RollbackLines ==
    { as_bytes(l) : l \in {
        <<"#", "K">>,
        <<"#", " ", "=", "v">>,
        <<"#", "1", "=", "v">>,
        <<"#", "K", "=", "\"", "x">>,
        <<"#", " ", "K", "=", "'", "x">>,
        <<"K", "=", "v">> } }

\* lines that begin with the bytes "export", followed by a space or tab, an
\* identifier byte, = or the end of the line
ExportLines ==
    { as_bytes(l) : l \in {
        <<"export", " ", "K", "=", "v">>,
        <<" ", "export", "\t", " ", "N", "=", "1">>,
        <<"export", "K", "=", "v">>,
        <<"export", "=", "v">>,
        <<"export">>,
        <<"#", " ", "export", " ", "N", "=", "1">> } }

\* lines with a second = right after the separator, and with later = bytes
\* in the value
EqualsLines ==
    { as_bytes(l) : l \in {
        <<"K", "=", "=", "v">>,
        <<"K", "=", "=">>,
        <<"K", "1", "=", "=", "=">>,
        <<"K", "=", "a", "=", "b">>,
        <<"K", "=", "a", "=", "=">>,
        <<"N", "=", "1">>,
        <<"#", "c">> } }

\* lines with spaces and tabs around the separator
SeparatorLines ==
    { as_bytes(l) : l \in {
        <<"K", " ", "=", "v">>,
        <<"K", "\t", " ", "=">>,
        <<"K", " ", "=", " ", "v">>,
        <<"K", "=", " ", "v">>,
        <<"K", "=", "\t">>,
        <<"export", " ", "N", " ", "=", "1">>,
        <<"K", "=", "v">> } }

\* lines on which no key byte is consumed, with = or with another byte where
\* the key should start, and a line with a key
EmptyKeyLines ==
    { as_bytes(l) : l \in {
        <<"=", "v">>,
        <<"export", " ", "=", "v">>,
        <<"-", "=">>,
        <<"export", "\t", "$">>,
        <<"e-acute", "=", "v">>,
        <<"export", " ">>,
        <<"K", "=", "v">> } }

\* Pairs of every quote type, active, exported and commented out
PositionLines ==
    { as_bytes(l) : l \in {
        <<"K", "=", "v">>,
        <<"K", "=", "'", "a", "'", "x">>,
        <<"K", "=", "\"", "\\", "n", "\"">>,
        <<"export", " ", "N", "=", "'", "'">>,
        <<"#", " ", "K", "=", "\"", "x", "\"">>,
        <<"K", "=", "a", "\\">> } }

\* assignments that repeat a key, active and commented out, a comment and
\* lines with an error
EnvLines ==
    { as_bytes(l) : l \in {
        <<"K", "=", "a">>,
        <<"K", "=", "b">>,
        <<"N", "=", "1">>,
        <<"#", "c">>,
        <<"#", " ", "K", "=", "c">>,
        <<"K", " ", "=", "v">> } }

\* one line for each Error of an assignment line
MessageLines ==
    { as_bytes(l) : l \in {
        <<"K", "=", "\"", "x">>,
        <<"1", "K", "=", "v">>,
        <<"K", " ", "=", "v">>,
        <<"K", "=", " ", "v">>,
        <<"K", "=", "=", "v">>,
        <<"K">>,
        <<"=", "v">> } }

\* the same text with other letters in its keys and values: K for N, v for
\* x, a for b, and back
RenameByte(b) ==
    CASE b = 75 -> 78 [] b = 78 -> 75
      [] b = 118 -> 120 [] b = 120 -> 118
      [] b = 97 -> 98 [] b = 98 -> 97
      [] OTHER -> b

Rename(bytes) == [k \in 1..Len(bytes) |-> RenameByte(bytes[k])]

\* lines for two instances that run interleaved, and the texts of the
\* second instance
IsolationLines ==
    { as_bytes(l) : l \in {
        <<"K", "=", "v">>,
        <<"K", "=", "a", "\\">>,
        <<"b">>,
        <<"#", "c">>,
        <<"K", "=", "\"", "x">> } }

OtherTexts ==
    { as_bytes(t) : t \in {
        <<>>,
        <<"K", "=", "a", "\\", "LF", "b">>,
        <<"#", "c", "LF", "K", "=", "v", "LF">> } }

\* values of every quote type, with and without a backslash, a
\* continuation, or nothing after the =
OwnershipLines ==
    { as_bytes(l) : l \in {
        <<"K", "=">>,
        <<"K", "=", "v">>,
        <<"K", "=", "a", "\\">>,
        <<"b">>,
        <<"K", "=", "'", "a", "\\", "'">>,
        <<"K", "=", "\"", "a", "\"">>,
        <<"K", "=", "\"", "\\", "n", "\"">> } }

\* lines that break several rules of an assignment at once, one rule, or none
OrderLines ==
    { as_bytes(l) : l \in {
        <<"1", "K", " ", "=", "v">>,
        <<"K", " ", "=", "=", " ", "v">>,
        <<"K", "=", "=", " ", "v">>,
        <<"K", " ", "x", "=", "v">>,
        <<"K", "=", " ", "\"", "x">>,
        <<"=", "=", "v">>,
        <<"K", "=", "'", "x">>,
        <<"K", "=", "v">> } }

\* comments, commented-out pairs, a quote that rolls the reading of a # line
\* back, a double-quoted value with an escape and a continued value
SourceOrderLines ==
    { as_bytes(l) : l \in {
        <<"K", "=", "v">>,
        <<"#", "K", "=", "\"", "x">>,
        <<"K", "=", "\"", "\\", "n", "\"">>,
        <<"K", "=", "a", "\\">>,
        <<"b">>,
        <<"#", "c">>,
        <<"#", " ", "N", "=", "1">> } }

\* # lines that read as a pair, with a continuation backslash and with an
\* opening quote, a plain comment, and active lines
CaptureLines ==
    { as_bytes(l) : l \in {
        <<"#", " ", "N", "=", "b", "\\">>,
        <<"#", "K", "=", "\"", "x">>,
        <<"#", "c">>,
        <<"K", "=", "v">>,
        <<"K", "=", "\"">>,
        <<"1", "=", "v">> } }

\* Pairs of every quote type, exported, commented out and continued, a
\* comment and a malformed line
TrackingLines ==
    { as_bytes(l) : l \in {
        <<"export", " ", "N", "=", "'", "a", "'">>,
        <<"#", " ", "K", "=", "\"", "x", "\"">>,
        <<"#", "c">>,
        <<"K", "=", "\"", "\\", "n", "\"">>,
        <<"K", "=", " ", "v">>,
        <<"K", "=", "a", "\\">> } }

\* lines that end where a sub-parser looks one byte ahead: a key alone, an
\* unclosed quote, a backslash last in a double-quoted and in an unquoted
\* value, a comment after a value
BoundsLines ==
    { as_bytes(l) : l \in {
        <<"K", "=", "v">>,
        <<"K">>,
        <<"K", "=", "'", "x">>,
        <<"K", "=", "\"", "a", "\\">>,
        <<"K", "=", "\"", "\\", "n", "\"">>,
        <<"K", "=", "a", "\\">>,
        <<"#", "K", "=", "v", " ", "#">> } }

\* assignment lines, well-formed and not, to be read active and commented out
GrammarLines ==
    { as_bytes(l) : l \in {
        <<"K", "=", "v">>,
        <<"K", " ", "=", " ", "v">>,
        <<"K", "=", " ", "v">>,
        <<"K", "=", "=", "v">>,
        <<"export", " ", "N", "=", "'", "x", "'">>,
        <<"K", "=", "a", "\\">>,
        <<"1", "K", "=", "v">>,
        <<"K">> } }

\* lines by the shape of their key
KeyLines ==
    { as_bytes(l) : l \in {
        <<"K", "1", "=", "v">>,
        <<"1", "K", "=", "v">>,
        <<"_", "=", "v">>,
        <<"=", "v">>,
        <<"#", "1", "=", "v">>,
        <<"#", " ", "export", " ", "N", "=", "1">>,
        <<"export", "\t", "1", "=", "v">> } }

\* K= and a quote, then every text of at most MaxBody of these characters
ValueChars == {"'", "\"", "\\", "n", "x", "$", "e-acute", "LF"}

ValueTexts ==
    { as_bytes(<<"K", "=", q>>) \o w : q \in {"'", "\""}, w \in Words(ValueChars, MaxBody) }

OptionSets == [include_comments : BOOLEAN, track_positions : BOOLEAN]

\* ------------------------------------------------------------------------
\* The state machine: Parser instances and their drivers
\* ------------------------------------------------------------------------
\* parser[i]: the Parser i (input, options, cursor, bom_checked) with
\*   iter        it was moved into an EnvIterator, which offers next() alone
\*   out         the entries the calls on it returned so far, in order
\*   last_call   "new", or the last call on it: "next_entry" or "parse", or
\*               "from_entries" when the Vec it returned was consumed
\*   ret         what the last next_entry call returned: None or Some(entry)
\*   prev_cursor the cursor when the last call on it began
\*   vec         None, or Some(v), v the Vec the last parse() returned
\*   hung        a call on it never returned
\*   env         None, or Some(e), e the Environment built from that Vec
VARIABLES parser

vars == <<parser>>

\* Parser::with_options, and EnvIterator::new when iter
with_options(input, options, iter) ==
    [input |-> input, options |-> options, cursor |-> 0, bom_checked |-> FALSE,
     iter |-> iter, out |-> <<>>, last_call |-> "new", ret |-> None, prev_cursor |-> 0,
     vec |-> None, hung |-> FALSE, env |-> None]

\* (a next_entry whose cursor is one static shared by all instances)
NextEntry_shared(i) ==
    \E r \in {next_entry(parser[i])} :
    LET p == parser[i]
    IN /\ ~p.hung
       /\ parser' = [j \in DOMAIN parser |->
             IF j = i
             THEN [p EXCEPT !.cursor = r.cursor,
                            !.bom_checked = TRUE,
                            !.prev_cursor = p.cursor,
                            !.last_call = "next_entry",
                            !.ret = r.result,
                            !.out = IF r.result = None THEN p.out ELSE Append(p.out, r.result[1]),
                            !.hung = r.hang]
             ELSE [parser[j] EXCEPT !.cursor = r.cursor]]

\* Parser::next_entry, EnvIterator::next on parser i
NextEntry(i) ==
    \E r \in {next_entry(parser[i])} :
    LET p == parser[i]
    IN /\ ~p.hung
       /\ parser' = [parser EXCEPT ![i] =
             [p EXCEPT !.cursor = r.cursor,
                       !.bom_checked = TRUE,
                       !.prev_cursor = p.cursor,
                       !.last_call = "next_entry",
                       !.ret = r.result,
                       !.out = IF r.result = None THEN p.out ELSE Append(p.out, r.result[1]),
                       !.hung = r.hang]]

\* Parser::parse on parser i
Parse(i) ==
    \E r \in {parse_internal(parser[i], <<>>)} :
    LET p == parser[i]
    IN /\ ~p.hung
       /\ ~p.iter
       /\ parser' = [parser EXCEPT ![i] =
             [p EXCEPT !.cursor = r.cursor,
                       !.bom_checked = TRUE,
                       !.prev_cursor = p.cursor,
                       !.last_call = "parse",
                       !.vec = IF r.hang THEN p.vec ELSE Some(r.entries),
                       !.out = p.out \o r.entries,
                       !.hung = r.hang]]

Next == \E i \in DOMAIN parser : NextEntry(i) \/ Parse(i)

\* Environment::from_entries on the Vec the last parse() of parser i returned
FromEntries(i) ==
    /\ parser[i].last_call = "parse"
    /\ parser[i].vec # None
    /\ parser' = [parser EXCEPT ![i] =
          [parser[i] EXCEPT !.env = Some(from_entries(parser[i].vec[1])),
                            !.last_call = "from_entries"]]

NextEnv == \E i \in DOMAIN parser : NextEntry(i) \/ Parse(i) \/ FromEntries(i)

\* crate::parse_with_options (lib.rs 21-24)
parse_with_options(input, options) ==
    parse_internal(with_options(input, options, FALSE), <<>>).entries

\* KorniBuilder::parse on a string source (builder.rs 46-51)
KorniBuilder_parse(input, options) == from_entries(parse_with_options(input, options))

\* one Parser over a text
InitOne(Inputs) ==
    \E input \in Inputs, options \in OptionSets :
        parser = [i \in {1} |-> with_options(input, options, FALSE)]

\* an EnvIterator and a Parser with the same options; the Parser's text is
\* the EnvIterator's text after the prefix
InitTwo(Inputs, prefix) ==
    \E input \in Inputs, options \in OptionSets :
        parser = [i \in {1, 2} |->
                    IF i = 1 THEN with_options(input, options, TRUE)
                    ELSE with_options(prefix \o input, options, FALSE)]

Init == InitOne(Texts(GeneralLines, MaxLines))

Spec == Init /\ [][Next]_vars

InitErr == InitOne(Texts(ErrorLines, MaxLines))

SpecErr == InitErr /\ [][Next]_vars

InitKey == InitOne(Texts(KeyLines, MaxLines))

SpecKey == InitKey /\ [][Next]_vars

InitValue == InitOne(ValueTexts)

SpecValue == InitValue /\ [][Next]_vars

InitCont == InitOne(Texts(ContinuationLines, MaxLines))

SpecCont == InitCont /\ [][Next]_vars

InitHash == InitOne(Texts(HashLines, MaxLines))

SpecHash == InitHash /\ [][Next]_vars

InitJunk == InitOne(Texts(JunkLines, MaxLines))

SpecJunk == InitJunk /\ [][Next]_vars

InitRollback == InitOne(Texts(RollbackLines, MaxLines))

SpecRollback == InitRollback /\ [][Next]_vars

InitExport == InitOne(Texts(ExportLines, MaxLines))

SpecExport == InitExport /\ [][Next]_vars

InitEquals == InitOne(Texts(EqualsLines, MaxLines))

SpecEquals == InitEquals /\ [][Next]_vars

InitSeparator == InitOne(Texts(SeparatorLines, MaxLines))

SpecSeparator == InitSeparator /\ [][Next]_vars

InitEmptyKey == InitOne(Texts(EmptyKeyLines, MaxLines))

SpecEmptyKey == InitEmptyKey /\ [][Next]_vars

InitPositions == InitOne(Texts(PositionLines, MaxLines))

SpecPositions == InitPositions /\ [][Next]_vars

InitEnv == InitOne(Texts(EnvLines, MaxLines))

SpecEnv == InitEnv /\ [][NextEnv]_vars

\* an EnvIterator over a text and a Parser, with the same options, over the
\* text with other letters
InitMessages ==
    \E input \in Texts(MessageLines, MaxGrammarLines), options \in OptionSets :
        parser = [i \in {1, 2} |->
                    IF i = 1 THEN with_options(input, options, TRUE)
                    ELSE with_options(Rename(input), options, FALSE)]

SpecMessages == InitMessages /\ [][Next]_vars

\* an EnvIterator and a Parser over independent texts
InitIsolation ==
    \E input \in Texts(IsolationLines, MaxGrammarLines), other \in OtherTexts,
       options \in OptionSets :
        parser = [i \in {1, 2} |->
                    IF i = 1 THEN with_options(input, options, TRUE)
                    ELSE with_options(other, options, FALSE)]

SpecIsolation == InitIsolation /\ [][Next]_vars

InitOwnership == InitOne(Texts(OwnershipLines, MaxLines))

SpecOwnership == InitOwnership /\ [][Next]_vars

InitOrder == InitOne(Texts(OrderLines, MaxLines))

SpecOrder == InitOrder /\ [][Next]_vars

InitSourceOrder == InitOne(Texts(SourceOrderLines, MaxLines))

SpecSourceOrder == InitSourceOrder /\ [][Next]_vars

InitCapture == InitOne(Texts(CaptureLines, MaxLines))

SpecCapture == InitCapture /\ [][Next]_vars

InitTracking == InitOne(Texts(TrackingLines, MaxLines))

SpecTracking == InitTracking /\ [][Next]_vars

InitBounds == InitOne(Texts(BoundsLines, MaxLines))

SpecBounds == InitBounds /\ [][Next]_vars

InitGrammar == InitTwo(Texts(GrammarLines, MaxGrammarLines), <<HASH, SP>>)

SpecGrammar == InitGrammar /\ [][Next]_vars

InitTwin == InitTwo(Texts(DriverLines, MaxLines), <<>>)

SpecTwin == InitTwin /\ [][Next]_vars

InitBom == InitOne(Texts(BomLines, MaxLines))

SpecBom == InitBom /\ [][Next]_vars

InitLead == InitTwo(Texts(LeadLines, MaxLines), BomBytes)

SpecLead == InitLead /\ [][Next]_vars

\* ------------------------------------------------------------------------
\* Properties
\* ------------------------------------------------------------------------
\* the last call on p was next_entry and it returned Some(entry)
Returned(p) == p.last_call = "next_entry" /\ p.ret # None

\* the offset of the first byte after the newline that ends the physical
\* line holding the offset off; the length of the text when no newline follows
AfterLineOf(bytes, off) ==
    IF \E n \in off..(Len(bytes) - 1) : bytes[n + 1] = LF
    THEN 1 + CHOOSE n \in off..(Len(bytes) - 1) :
                /\ bytes[n + 1] = LF
                /\ \A m \in off..(n - 1) : bytes[m + 1] # LF
    ELSE Len(bytes)

\* C1: a malformed assignment line yields one Error entry, and after the
\* Error (of any kind, UnclosedQuote included) the parser resumes at the
\* first byte after the newline ending the physical line of the error, so
\* that the lines that follow are parsed as if the malformed line were absent.
C1_ErrorResumesAtNextLine ==
    \A i \in DOMAIN parser :
        (Returned(parser[i]) /\ parser[i].ret[1].kind = "Error"
                             /\ parser[i].ret[1].err # "InvalidBom")
        => parser[i].cursor = AfterLineOf(parser[i].input, parser[i].ret[1].offset)

\* the offset where the logical line starting at from ends, as the grammar
\* of continuation has it: a physical line whose newline is immediately
\* preceded by a backslash continues on the next one, and so does an empty
\* line inside a continuation; the offset after the last line's newline
RECURSIVE LogicalLineEnd(_, _, _)
LogicalLineEnd(bytes, from, continued) ==
    IF \A n \in from..(Len(bytes) - 1) : bytes[n + 1] # LF THEN Len(bytes)
    ELSE IF bytes[from + 1] = LF
    THEN IF continued THEN LogicalLineEnd(bytes, from + 1, TRUE) ELSE from + 1
    ELSE IF bytes[AfterLineOf(bytes, from) - 1] = BSL
    THEN LogicalLineEnd(bytes, AfterLineOf(bytes, from), TRUE)
    ELSE AfterLineOf(bytes, from)

\* C2: no physical line is swallowed by the Pair before it: after next_entry
\* returns a Pair, the cursor has not passed anything but blank lines beyond
\* the end of the lines the Pair's key and value consumed, also when the
\* value was built by backslash continuation.
C2_PairLeavesNextLine ==
    \A i \in DOMAIN parser :
        (Returned(parser[i]) /\ parser[i].ret[1].kind = "Pair"
                             /\ parser[i].ret[1].key_span # None
                             /\ parser[i].ret[1].quote = "None")
        => \A n \in LogicalLineEnd(parser[i].input,
                                   parser[i].ret[1].key_span[1].start.offset,
                                   FALSE) .. (parser[i].cursor - 1) :
               parser[i].input[n + 1] \in {LF, SP, TAB}

\* what is left to do for p: the bytes after the cursor, and the BOM check
Measure(p) == (Len(p.input) - p.cursor) + (IF p.bom_checked THEN 0 ELSE 1)

\* C3: every call returns, the cursor never decreases and never exceeds the
\* length of the input, and every call that yields an entry strictly
\* decreases what is left of the input, so that after finitely many calls
\* next_entry returns None and parse() terminates.
C3_Termination ==
    [][\A i \in DOMAIN parser :
          /\ ~parser'[i].hung
          /\ parser[i].cursor <= parser'[i].cursor
          /\ parser'[i].cursor <= Len(parser'[i].input)
          /\ parser'[i].out # parser[i].out
                => /\ Measure(parser'[i]) < Measure(parser[i])
                   /\ Measure(parser'[i]) >= 0
          /\ (Measure(parser[i]) = 0 /\ parser'[i].last_call = "next_entry")
                => parser'[i].ret = None]_vars

\* a parser that went through a continued value, yielded two entries or
\* more one by one and then returned None at the end of the input
C3_Witness ==
    \E i \in DOMAIN parser :
        /\ parser[i].last_call = "next_entry" /\ parser[i].ret = None
        /\ parser[i].vec = None
        /\ Len(parser[i].out) >= 2
        /\ \E n \in 1..Len(parser[i].out) :
              parser[i].out[n].kind = "Pair" /\ parser[i].out[n].owned
        /\ parser[i].cursor = Len(parser[i].input)

\* C4: the eager and the lazy driver agree.  With parser 1 an EnvIterator
\* drained until None and parser 2 a Parser over the same text and options
\* on which parse() was called after k entries had been pulled from it, the
\* first k entries of both are the same and the Vec is exactly the rest of
\* the EnvIterator's sequence (all of it when k = 0).
C4_EagerEqualsLazy ==
    (/\ DOMAIN parser = {1, 2}
     /\ parser[1].last_call = "next_entry" /\ parser[1].ret = None
     /\ parser[2].last_call = "parse" /\ parser[2].vec # None)
    => /\ SubSeq(parser[2].out, 1, Len(parser[2].out) - Len(parser[2].vec[1]))
            = SubSeq(parser[1].out, 1, Len(parser[2].out) - Len(parser[2].vec[1]))
       /\ parser[2].vec[1]
            = SubSeq(parser[1].out, Len(parser[2].out) - Len(parser[2].vec[1]) + 1,
                     Len(parser[1].out))

\* the EnvIterator gave three entries; parse() was called on the Parser after
\* one entry had been pulled from it, and returned the other two
C4_Witness ==
    /\ DOMAIN parser = {1, 2}
    /\ parser[1].last_call = "next_entry" /\ parser[1].ret = None
    /\ Len(parser[1].out) = 3
    /\ parser[2].last_call = "parse" /\ parser[2].vec # None
    /\ Len(parser[2].vec[1]) = 2
    /\ Len(parser[2].out) = 3

\* the byte offsets at which the character U+FEFF (EF BB BF) occurs
BomOffsets(bytes) == {o \in 0..(Len(bytes) - 3) : Slice(bytes, o, o + 3) = BomBytes}

IsInvalidBomAt(e, offsets) ==
    e.kind = "Error" /\ e.err = "InvalidBom" /\ e.offset \in offsets

\* C5: an out-of-place BOM is a hard stop.  For an input that does not start
\* with a BOM and holds U+FEFF at an offset greater than 0, whatever calls
\* were made, the entries produced are exactly one InvalidBom error carrying
\* such an offset: no Pair, no Comment and no other Error beside it.
C5_MisplacedBomStopsParse ==
    \A i \in DOMAIN parser :
        (/\ parser[i].last_call # "new"
         /\ ~StartsWithBom(parser[i].input)
         /\ BomOffsets(parser[i].input) # {})
        => /\ Len(parser[i].out) = 1
           /\ IsInvalidBomAt(parser[i].out[1], BomOffsets(parser[i].input))

\* C6: a second BOM is still rejected.  For an input that starts with the
\* BOM bytes and holds U+FEFF again at a later offset, as soon as a call was
\* made the entries produced include an InvalidBom error at a later offset.
C6_SecondBomRejected ==
    \A i \in DOMAIN parser :
        (/\ parser[i].last_call # "new"
         /\ StartsWithBom(parser[i].input)
         /\ BomOffsets(parser[i].input) \ {0} # {})
        => \E n \in 1..Len(parser[i].out) :
              IsInvalidBomAt(parser[i].out[n], BomOffsets(parser[i].input) \ {0})

\* an entry with every offset it carries moved by d bytes
ShiftPosition(pos, d) == [pos EXCEPT !.offset = @ + d]

ShiftSpan(span, d) ==
    [start |-> ShiftPosition(span.start, d), end |-> ShiftPosition(span.end, d)]

ShiftEntry(e, d) ==
    IF e.kind = "Error" THEN [e EXCEPT !.offset = @ + d]
    ELSE IF e.kind = "Comment" THEN [e EXCEPT !.span = ShiftSpan(@, d)]
    ELSE [e EXCEPT
            !.key_span = IF @ = None THEN None ELSE Some(ShiftSpan(@[1], d)),
            !.value_span = IF @ = None THEN None ELSE Some(ShiftSpan(@[1], d)),
            !.open_quote_pos = IF @ = None THEN None ELSE Some(ShiftPosition(@[1], d)),
            !.close_quote_pos = IF @ = None THEN None ELSE Some(ShiftPosition(@[1], d)),
            !.equals_pos = IF @ = None THEN None ELSE Some(ShiftPosition(@[1], d))]

\* no more entries will come out of p
Drained(p) ==
    \/ p.last_call = "parse"
    \/ p.last_call = "next_entry" /\ p.ret = None

\* C7: a leading BOM is transparent.  With parser 1 over a BOM-free text s
\* and parser 2 over BOM+s, the n-th entry of parser 2 is the n-th entry of
\* parser 1 with every offset moved by 3 bytes and everything else the same,
\* both give the same number of entries, and parser 2 gives no InvalidBom.
C7_LeadingBomTransparent ==
    (/\ DOMAIN parser = {1, 2}
     /\ BomOffsets(parser[1].input) = {}
     /\ parser[2].input = BomBytes \o parser[1].input)
    => /\ \A n \in 1..Len(parser[2].out) :
            /\ ~IsInvalidBomAt(parser[2].out[n], 0..Len(parser[2].input))
            /\ n <= Len(parser[1].out) => parser[2].out[n] = ShiftEntry(parser[1].out[n], 3)
       /\ Drained(parser[1]) => Len(parser[2].out) <= Len(parser[1].out)
       /\ Drained(parser[2]) => Len(parser[1].out) <= Len(parser[2].out)

\* both parsers drained, with positions tracked: an Error and a Pair with
\* spans among the entries
C7_Witness ==
    /\ DOMAIN parser = {1, 2}
    /\ parser[2].input = BomBytes \o parser[1].input
    /\ Drained(parser[1]) /\ Drained(parser[2])
    /\ parser[2].options.track_positions
    /\ \E n \in 1..Len(parser[2].out) : parser[2].out[n].kind = "Error"
    /\ \E n \in 1..Len(parser[2].out) :
          /\ parser[2].out[n].kind = "Pair"
          /\ parser[2].out[n].key_span # None
          /\ parser[2].out[n].key_span[1].start.offset >= 3
          /\ n <= Len(parser[1].out)
          /\ parser[1].out[n].key_span[1].start.offset
                = parser[2].out[n].key_span[1].start.offset - 3

AsciiDigits == 48..57

AsciiLetters == (65..90) \cup (97..122)

\* C8: every Pair in the output, active or commented, exported or not, has a
\* non-empty key made of ASCII letters, digits and underscore only, whose
\* first byte is not a digit.
C8_KeyInvariant ==
    \A i \in DOMAIN parser :
        \A n \in 1..Len(parser[i].out) :
            parser[i].out[n].kind = "Pair"
            => /\ Len(parser[i].out[n].key) >= 1
               /\ \A j \in 1..Len(parser[i].out[n].key) :
                     parser[i].out[n].key[j] \in AsciiLetters \cup AsciiDigits \cup {95}
               /\ parser[i].out[n].key[1] \notin AsciiDigits

\* the output holds a commented exported Pair, a Pair whose key has a digit
\* inside and an InvalidKey error for a key that starts with a digit
C8_Witness ==
    \E i \in DOMAIN parser :
        /\ \E n \in 1..Len(parser[i].out) :
              /\ parser[i].out[n].kind = "Pair"
              /\ parser[i].out[n].is_comment /\ parser[i].out[n].is_exported
        /\ \E n \in 1..Len(parser[i].out) :
              /\ parser[i].out[n].kind = "Pair" /\ ~parser[i].out[n].is_comment
              /\ \E j \in 2..Len(parser[i].out[n].key) :
                    parser[i].out[n].key[j] \in AsciiDigits
        /\ \E n \in 1..Len(parser[i].out) :
              parser[i].out[n].kind = "Error" /\ parser[i].out[n].err = "InvalidKey"

\* what a backslash and the byte b after it stand for in a double-quoted
\* value: the six escapes, and the same two bytes for any other b
RefEscape(b) ==
    CASE b = LowerN -> <<LF>>
      [] b = LowerR -> <<CR>>
      [] b = LowerT -> <<TAB>>
      [] b = BSL -> <<BSL>>
      [] b = DQ -> <<DQ>>
      [] b = DOLLAR -> <<DOLLAR>>
      [] OTHER -> <<BSL, b>>

\* the content of a double-quoted value read from offset c on: a backslash
\* takes the byte after it with it, the first double quote outside such a
\* pair closes the value, every other byte stands for itself
RECURSIVE RefDecode(_, _, _)
RefDecode(bytes, c, value) ==
    IF c >= Len(bytes) THEN [closed |-> FALSE, value |-> value]
    ELSE IF bytes[c + 1] = BSL /\ c + 1 < Len(bytes)
    THEN RefDecode(bytes, c + 2, value \o RefEscape(bytes[c + 2]))
    ELSE IF bytes[c + 1] = DQ THEN [closed |-> TRUE, value |-> value]
    ELSE RefDecode(bytes, c + 1, Append(value, bytes[c + 1]))

\* C9: double-quoted decoding.  For a line K="..." whose value is closed,
\* the first entry is a Pair of quote type Double whose value is the content
\* between the quotes with the six escapes decoded, every other backslash
\* pair kept as its two bytes and all other bytes unchanged; a double quote
\* after an unescaped backslash does not close the value.
C9_DoubleQuotedDecoding ==
    \A i \in DOMAIN parser :
        (/\ parser[i].last_call # "new"
         /\ Len(parser[i].input) >= 3
         /\ parser[i].input[3] = DQ
         /\ RefDecode(parser[i].input, 3, <<>>).closed)
        => /\ Len(parser[i].out) >= 1
           /\ parser[i].out[1].kind = "Pair"
           /\ parser[i].out[1].quote = "Double"
           /\ parser[i].out[1].value = RefDecode(parser[i].input, 3, <<>>).value

\* the 1-based index of the first single quote after index n of bytes
FirstQuoteAfter(bytes, n) ==
    CHOOSE m \in (n + 1)..Len(bytes) :
        bytes[m] = SQ /\ \A k \in (n + 1)..(m - 1) : bytes[k] # SQ

\* C10: single-quoted values are literal.  For a line K='...' with a later
\* single quote in the input, the first entry is a Pair of quote type Single
\* whose value is exactly the source bytes strictly between the opening
\* quote and the first following single quote, whatever they are, and holds
\* no single quote.
C10_SingleQuotedLiteral ==
    \A i \in DOMAIN parser :
        (/\ parser[i].last_call # "new"
         /\ Len(parser[i].input) >= 3
         /\ parser[i].input[3] = SQ
         /\ \E m \in 4..Len(parser[i].input) : parser[i].input[m] = SQ)
        => /\ Len(parser[i].out) >= 1
           /\ parser[i].out[1].kind = "Pair"
           /\ parser[i].out[1].quote = "Single"
           /\ parser[i].out[1].value
                = SubSeq(parser[i].input, 4, FirstQuoteAfter(parser[i].input, 3) - 1)
           /\ \A n \in 1..Len(parser[i].out[1].value) : parser[i].out[1].value[n] # SQ

\* a single-quoted value of a backslash and then a double quote or a newline
C10_Witness ==
    \E i \in DOMAIN parser :
        /\ Len(parser[i].out) >= 1
        /\ parser[i].out[1].kind = "Pair"
        /\ parser[i].out[1].quote = "Single"
        /\ Len(parser[i].out[1].value) = 2
        /\ parser[i].out[1].value[1] = BSL
        /\ parser[i].out[1].value[2] \in {DQ, LF}

\* the value of the line K=... opens with the quote q and is never closed:
\* no later single quote, or no double quote outside a backslash pair
UnclosedAfter(bytes, q) ==
    /\ Len(bytes) >= 3
    /\ bytes[3] = q
    /\ IF q = SQ THEN \A m \in 4..Len(bytes) : bytes[m] # SQ
       ELSE ~RefDecode(bytes, 3, <<>>).closed

\* C11: unclosed quotes are errors, never Pairs.  For a line K='... with no
\* later single quote, or K="... with no unescaped double quote before the
\* end of the input (a lone backslash or \" at the end included), the
\* entries are exactly one UnclosedQuote error with quote_type "single" /
\* "double" whose offset is the offset of the opening quote.
C11_UnclosedQuoteIsError ==
    \A i \in DOMAIN parser :
        \A q \in {SQ, DQ} :
            (parser[i].last_call # "new" /\ UnclosedAfter(parser[i].input, q))
            => parser[i].out
                 = <<ErrorEntry("UnclosedQuote", 2, IF q = SQ THEN "single" ELSE "double")>>

\* a double-quoted value that ends in \" , and one that ends in a lone
\* backslash, each reported as unclosed
C11_Witness ==
    \E i \in DOMAIN parser :
        /\ UnclosedAfter(parser[i].input, DQ)
        /\ Len(parser[i].input) >= 5
        /\ parser[i].input[Len(parser[i].input)] \in {DQ, BSL}
        /\ parser[i].input[Len(parser[i].input) - 1] = BSL
        /\ Len(parser[i].out) = 1
        /\ parser[i].out[1].kind = "Error"
        /\ parser[i].out[1].err = "UnclosedQuote"

\* the input opens with an assignment line whose one-letter key is followed
\* by = at offset 1, so that its value starts at offset 2
OpensWithAssignment(bytes) ==
    Len(bytes) >= 2 /\ bytes[1] \in AsciiLetters /\ bytes[2] = EQ

\* the offset of the first newline at or after offset from; the length of
\* the text when there is none
NewlineFrom(bytes, from) ==
    IF \E k \in from..(Len(bytes) - 1) : bytes[k + 1] = LF
    THEN CHOOSE k \in from..(Len(bytes) - 1) :
            bytes[k + 1] = LF /\ \A j \in from..(k - 1) : bytes[j + 1] # LF
    ELSE Len(bytes)

\* the offset of the first space or tab in offsets from..(to - 1); to when
\* there is none
BlankFrom(bytes, from, to) ==
    IF \E k \in from..(to - 1) : bytes[k + 1] \in {SP, TAB}
    THEN CHOOSE k \in from..(to - 1) :
            bytes[k + 1] \in {SP, TAB} /\ \A j \in from..(k - 1) : bytes[j + 1] \notin {SP, TAB}
    ELSE to

\* the first value line holds a space or tab and, after it, ends with a
\* backslash right before its newline
BlankBeforeBackslash(bytes) ==
    /\ OpensWithAssignment(bytes)
    /\ NewlineFrom(bytes, 2) < Len(bytes)
    /\ bytes[NewlineFrom(bytes, 2)] = BSL
    /\ bytes[3] \notin {SQ, DQ}
    /\ BlankFrom(bytes, 2, NewlineFrom(bytes, 2)) < NewlineFrom(bytes, 2)

\* C12: whitespace termination wins over continuation.  When the first value
\* line of an unquoted value holds a space or tab before its trailing
\* backslash, the value is only the text before that first whitespace; and
\* no unquoted value ever holds a space or tab.
C12_WhitespaceWinsOverContinuation ==
    \A i \in DOMAIN parser :
        /\ \A n \in 1..Len(parser[i].out) :
              (parser[i].out[n].kind = "Pair" /\ parser[i].out[n].quote = "None")
              => \A k \in 1..Len(parser[i].out[n].value) :
                    parser[i].out[n].value[k] \notin {SP, TAB}
        /\ (parser[i].last_call # "new" /\ BlankBeforeBackslash(parser[i].input))
           => /\ Len(parser[i].out) >= 1
              /\ parser[i].out[1].kind = "Pair"
              /\ parser[i].out[1].value
                   = SubSeq(parser[i].input, 3,
                            BlankFrom(parser[i].input, 2, NewlineFrom(parser[i].input, 2)))

\* the end of the text of the line that starts at offset from: its newline,
\* or the CR before it when the line ends in CR LF
TextEnd(bytes, from) ==
    IF /\ NewlineFrom(bytes, from) < Len(bytes)
       /\ NewlineFrom(bytes, from) > from
       /\ bytes[NewlineFrom(bytes, from)] = CR
    THEN NewlineFrom(bytes, from) - 1
    ELSE NewlineFrom(bytes, from)

\* the line that starts at offset from ends with a backslash immediately
\* followed by a line terminator
EndsInContinuation(bytes, from) ==
    /\ NewlineFrom(bytes, from) < Len(bytes)
    /\ TextEnd(bytes, from) > from
    /\ bytes[TextEnd(bytes, from)] = BSL

\* the lines from offset from on, joined: each line that ends in a
\* continuation without its backslash and terminator, then the first line
\* that does not
RECURSIVE JoinedLines(_, _)
JoinedLines(bytes, from) ==
    IF EndsInContinuation(bytes, from)
    THEN SubSeq(bytes, from + 1, TextEnd(bytes, from) - 1)
            \o JoinedLines(bytes, NewlineFrom(bytes, from) + 1)
    ELSE SubSeq(bytes, from + 1, TextEnd(bytes, from))

\* the lines joined from offset from on are plain text: no #, no CR but in
\* CR LF, no empty line before the end of the input, and no space or tab at
\* the end of the last one
RECURSIVE PlainChain(_, _)
PlainChain(bytes, from) ==
    /\ \A k \in from..(TextEnd(bytes, from) - 1) : bytes[k + 1] \notin {HASH, CR}
    /\ from = Len(bytes) \/ TextEnd(bytes, from) > from
    /\ IF EndsInContinuation(bytes, from)
       THEN PlainChain(bytes, NewlineFrom(bytes, from) + 1)
       ELSE TextEnd(bytes, from) = from \/ bytes[TextEnd(bytes, from)] \notin {SP, TAB}

PlainLineWithBackslash(bytes, e) ==
    /\ OpensWithAssignment(bytes)
    /\ e >= 4 /\ e <= Len(bytes)
    /\ bytes[e] = BSL
    /\ \A k \in 3..(e - 1) : bytes[k] \in AsciiLetters \cup AsciiDigits \cup {EQ}

\* C14: a backslash that is the very last byte of the input is literal.  For
\* a line K=text\ that ends the input without a newline the value is text\,
\* a view of the input; when a newline follows the same line, the backslash
\* is dropped and the value goes on with the next line (no line of the
\* texts begins with a backslash).
C14_BackslashAtEndOfInput ==
    \A i \in DOMAIN parser :
        /\ (/\ parser[i].last_call # "new"
            /\ PlainLineWithBackslash(parser[i].input, Len(parser[i].input)))
           => /\ Len(parser[i].out) = 1
              /\ parser[i].out[1].kind = "Pair"
              /\ parser[i].out[1].value = SubSeq(parser[i].input, 3, Len(parser[i].input))
              /\ ~parser[i].out[1].owned
        /\ (/\ parser[i].last_call # "new"
            /\ NewlineFrom(parser[i].input, 2) < Len(parser[i].input)
            /\ PlainLineWithBackslash(parser[i].input, NewlineFrom(parser[i].input, 2)))
           => /\ Len(parser[i].out) >= 1
              /\ parser[i].out[1].kind = "Pair"
              /\ parser[i].out[1].owned
              /\ parser[i].cursor > NewlineFrom(parser[i].input, 2)
              /\ Len(parser[i].out[1].value) >= NewlineFrom(parser[i].input, 2) - 3
              /\ SubSeq(parser[i].out[1].value, 1, NewlineFrom(parser[i].input, 2) - 3)
                   = SubSeq(parser[i].input, 3, NewlineFrom(parser[i].input, 2) - 1)
              /\ Len(parser[i].out[1].value) > NewlineFrom(parser[i].input, 2) - 3
                 => parser[i].out[1].value[NewlineFrom(parser[i].input, 2) - 2] # BSL

\* K=a\ without a newline gave the value a\
C14_Witness ==
    \E i \in DOMAIN parser :
        /\ PlainLineWithBackslash(parser[i].input, Len(parser[i].input))
        /\ Len(parser[i].out) = 1
        /\ parser[i].out[1].kind = "Pair"
        /\ parser[i].out[1].value[Len(parser[i].out[1].value)] = BSL

\* the first value line is text, a backslash at offset b, one or more blanks
\* and an inline comment that starts with the # at offset h; a plain next
\* line follows its newline
BackslashThenComment(bytes, b, h) ==
    /\ OpensWithAssignment(bytes)
    /\ 2 < b /\ b + 1 < h /\ h < NewlineFrom(bytes, 2)
    /\ NewlineFrom(bytes, 2) + 1 < Len(bytes)
    /\ bytes[b + 1] = BSL /\ bytes[h + 1] = HASH
    /\ \A k \in (b + 1)..(h - 1) : bytes[k + 1] \in {SP, TAB}
    /\ \A k \in 2..(b - 1) : bytes[k + 1] \notin {HASH, BSL, SQ, DQ, CR}
    /\ PlainChain(bytes, NewlineFrom(bytes, 2) + 1)

\* C15: a backslash before an inline comment continues the value.  For a
\* first line `text \ # comment` followed by a newline and a next line, the
\* comment is dropped and the value is the text before the backslash joined
\* with the next physical line; the comment text is no part of the value.
C15_BackslashBeforeComment ==
    \A i \in DOMAIN parser :
        \A b, h \in 2..Len(parser[i].input) :
            (parser[i].last_call # "new" /\ BackslashThenComment(parser[i].input, b, h))
            => /\ Len(parser[i].out) >= 1
               /\ parser[i].out[1].kind = "Pair"
               /\ parser[i].out[1].value
                    = SubSeq(parser[i].input, 3, b)
                        \o JoinedLines(parser[i].input, NewlineFrom(parser[i].input, 2) + 1)

\* the offset after the first physical line: after its newline, or the
\* length of the text
AfterFirstLine(bytes) ==
    IF NewlineFrom(bytes, 2) < Len(bytes) THEN NewlineFrom(bytes, 2) + 1 ELSE Len(bytes)

\* the first line is K= and an unquoted text without space, tab, backslash
\* or CR that holds a #
LiteralHashLine(bytes) ==
    /\ OpensWithAssignment(bytes)
    /\ \E k \in 2..(NewlineFrom(bytes, 2) - 1) : bytes[k + 1] = HASH
    /\ \A k \in 2..(NewlineFrom(bytes, 2) - 1) : bytes[k + 1] \notin {SP, TAB, BSL, CR, SQ, DQ}

\* the first line is K= and an unquoted text, then blanks up to the # at
\* offset h, with no backslash before the #
InlineCommentLine(bytes, h) ==
    /\ OpensWithAssignment(bytes)
    /\ 3 < h /\ h < NewlineFrom(bytes, 2)
    /\ bytes[h + 1] = HASH
    /\ bytes[h] \in {SP, TAB}
    /\ bytes[3] \notin {SP, TAB, SQ, DQ}
    /\ \A k \in 2..(h - 1) : bytes[k + 1] \notin {BSL, CR}
    /\ \A k \in BlankFrom(bytes, 2, h)..(h - 1) : bytes[k + 1] \in {SP, TAB}

\* C16: the inline comment rule.  A # at the start of an unquoted value or
\* after any byte but a space or tab is a literal part of the value; a #
\* after a space or tab starts a comment, and a backslash inside that comment
\* at the end of the line continues nothing: the call stops after the line's
\* newline, so that the next physical line is parsed as its own entry.
C16_InlineCommentRule ==
    \A i \in DOMAIN parser :
        /\ (parser[i].last_call # "new" /\ LiteralHashLine(parser[i].input))
           => /\ Len(parser[i].out) >= 1
              /\ parser[i].out[1].kind = "Pair"
              /\ parser[i].out[1].value
                   = SubSeq(parser[i].input, 3, NewlineFrom(parser[i].input, 2))
        /\ \A h \in 3..Len(parser[i].input) :
              (parser[i].last_call # "new" /\ InlineCommentLine(parser[i].input, h))
              => /\ Len(parser[i].out) >= 1
                 /\ parser[i].out[1].kind = "Pair"
                 /\ parser[i].out[1].value
                      = SubSeq(parser[i].input, 3, BlankFrom(parser[i].input, 2, h))
                 /\ ~parser[i].out[1].owned
                 /\ (parser[i].last_call = "next_entry" /\ Len(parser[i].out) = 1
                     /\ parser[i].ret # None)
                    => parser[i].cursor = AfterFirstLine(parser[i].input)
                 /\ (Drained(parser[i]) /\ AfterFirstLine(parser[i].input) < Len(parser[i].input))
                    => Len(parser[i].out) >= 2

\* an inline comment that ends in a backslash; the next line came out as
\* the second entry
C16_Witness ==
    \E i \in DOMAIN parser :
        \E h \in 3..Len(parser[i].input) :
            /\ InlineCommentLine(parser[i].input, h)
            /\ parser[i].input[NewlineFrom(parser[i].input, 2)] = BSL
            /\ Len(parser[i].out) >= 2
            /\ parser[i].out[1].kind = "Pair"
            /\ parser[i].out[2].kind = "Pair"
            /\ parser[i].out[2].value # parser[i].out[1].value

\* the first line is K=, a value that ends right before offset j, and junk
\* from j up to the line's newline: the value is quoted and its closing
\* quote is the byte before j, or it is unquoted and j is its first blank
ValueThenJunk(bytes, j) ==
    /\ OpensWithAssignment(bytes)
    /\ 2 < j /\ j < NewlineFrom(bytes, 2)
    /\ \A k \in 2..(NewlineFrom(bytes, 2) - 1) : bytes[k + 1] # CR
    /\ IF bytes[3] \in {SQ, DQ}
       THEN /\ 3 < j
            /\ bytes[j] = bytes[3]
            /\ \A k \in 3..(j - 2) : bytes[k + 1] \notin {bytes[3], BSL}
       ELSE /\ bytes[j + 1] \in {SP, TAB}
            /\ \A k \in 2..(j - 1) : bytes[k + 1] \notin {SP, TAB, HASH, BSL}

\* the Pair of the line K=value: the value is the bytes of offsets from..(to - 1)
PlainPair(bytes, from, to) ==
    [kind |-> "Pair", key |-> <<bytes[1]>>, value |-> SubSeq(bytes, from + 1, to),
     quote |-> IF bytes[3] = SQ THEN "Single" ELSE IF bytes[3] = DQ THEN "Double" ELSE "None",
     is_exported |-> FALSE, is_comment |-> FALSE]

\* key, value, quote type and flags of a Pair
Content(e) ==
    [kind |-> e.kind, key |-> e.key, value |-> e.value, quote |-> e.quote,
     is_exported |-> e.is_exported, is_comment |-> e.is_comment]

\* C17: line junk is discarded without diagnostic.  After the closing quote
\* of a quoted value, or the first whitespace of an unquoted value, whatever
\* bytes follow up to and including the line's newline are consumed: the
\* line yields the Pair it yields without them (same key, value, quote type
\* and flags), no Error and no other entry, and the call ends after the
\* line's newline.
C17_LineJunkDiscarded ==
    \A i \in DOMAIN parser :
        \A j \in 3..Len(parser[i].input) :
            (parser[i].last_call # "new" /\ ValueThenJunk(parser[i].input, j))
            => /\ Len(parser[i].out) >= 1
               /\ parser[i].out[1].kind = "Pair"
               /\ Content(parser[i].out[1])
                    = PlainPair(parser[i].input,
                                IF parser[i].input[3] \in {SQ, DQ} THEN 3 ELSE 2,
                                IF parser[i].input[3] \in {SQ, DQ} THEN j - 1 ELSE j)
               /\ (parser[i].last_call = "next_entry" /\ Len(parser[i].out) = 1
                   /\ parser[i].ret # None)
                  => parser[i].cursor = AfterFirstLine(parser[i].input)

\* the first value line is plain text that ends in a continuation, the
\* line after it is empty, and a plain chain of lines starts at offset m,
\* right after the empty line
EmptyLineInContinuation(bytes, m) ==
    /\ OpensWithAssignment(bytes)
    /\ EndsInContinuation(bytes, 2)
    /\ \A k \in 2..(TextEnd(bytes, 2) - 1) : bytes[k + 1] \notin {HASH, CR, SQ, DQ}
    /\ m = NewlineFrom(bytes, 2) + 2
    /\ m < Len(bytes)
    /\ bytes[m] = LF
    /\ PlainChain(bytes, m)

\* the offset of the end of the last line of the chain that starts at from
RECURSIVE ChainEnd(_, _)
ChainEnd(bytes, from) ==
    IF EndsInContinuation(bytes, from)
    THEN ChainEnd(bytes, NewlineFrom(bytes, from) + 1)
    ELSE NewlineFrom(bytes, from)

\* C18: empty lines inside a continuation are consumed.  Once the value has
\* entered continuation, an empty physical line adds nothing and does not
\* end the value: the value goes on with the line after it, and when the
\* chain ends the input that Pair is the only entry.
C18_EmptyLineInContinuation ==
    \A i \in DOMAIN parser :
        \A m \in 4..Len(parser[i].input) :
            (parser[i].last_call # "new" /\ EmptyLineInContinuation(parser[i].input, m))
            => /\ Len(parser[i].out) >= 1
               /\ parser[i].out[1].kind = "Pair"
               /\ parser[i].out[1].value
                    = SubSeq(parser[i].input, 3, TextEnd(parser[i].input, 2) - 1)
                        \o JoinedLines(parser[i].input, m)
               /\ (Drained(parser[i]) /\ ChainEnd(parser[i].input, m) >= Len(parser[i].input) - 1)
                  => Len(parser[i].out) = 1

\* K=a\, an empty line and b gave the one Pair K=ab
C18_Witness ==
    \E i \in DOMAIN parser :
        \E m \in 4..Len(parser[i].input) :
            /\ EmptyLineInContinuation(parser[i].input, m)
            /\ Drained(parser[i])
            /\ Len(parser[i].out) = 1
            /\ parser[i].out[1].kind = "Pair"
            /\ Len(parser[i].out[1].value) = 2

\* the line that starts at offset from has # as its first byte after spaces
\* and tabs
IsHashLine(bytes, from) ==
    \E h \in from..(NewlineFrom(bytes, from) - 1) :
        /\ bytes[h + 1] = HASH
        /\ \A k \in from..(h - 1) : bytes[k + 1] \in {SP, TAB}

\* the number of # lines from offset from on, the lines that continue an
\* unquoted value left out (continued: the line before ended in a backslash,
\* or was an empty line inside a continuation)
RECURSIVE HashLineCount(_, _, _)
HashLineCount(bytes, from, continued) ==
    IF from >= Len(bytes) THEN 0
    ELSE (IF IsHashLine(bytes, from) /\ ~continued THEN 1 ELSE 0)
         + HashLineCount(bytes, NewlineFrom(bytes, from) + 1,
                         \/ EndsInContinuation(bytes, from)
                         \/ continued /\ NewlineFrom(bytes, from) = from)

\* the entry is a Comment or a commented-out Pair
FromComment(e) == e.kind = "Comment" \/ (e.kind = "Pair" /\ e.is_comment)

RECURSIVE CommentEntryCount(_)
CommentEntryCount(entries) ==
    IF entries = <<>> THEN 0
    ELSE (IF FromComment(Head(entries)) THEN 1 ELSE 0) + CommentEntryCount(Tail(entries))

\* the offset where the physical line that holds offset off starts
LineStartOf(bytes, off) ==
    IF \E k \in 1..off : bytes[k] = LF
    THEN CHOOSE k \in 1..off : bytes[k] = LF /\ \A j \in (k + 1)..off : bytes[j] # LF
    ELSE 0

\* C19: the comment capture switch.  With include_comments = false no
\* Comment and no Pair with is_comment = true is ever produced; with
\* include_comments = true every line whose first non-whitespace byte is #
\* yields exactly one entry, a Comment or a Pair with is_comment = true; a
\* Pair has is_comment = true only when its key stands on such a line.
C19_CommentCaptureSwitch ==
    \A i \in DOMAIN parser :
        /\ ~parser[i].options.include_comments
           => \A n \in 1..Len(parser[i].out) : ~FromComment(parser[i].out[n])
        /\ (parser[i].options.include_comments /\ Drained(parser[i])
            /\ BomOffsets(parser[i].input) = {})
           => CommentEntryCount(parser[i].out) = HashLineCount(parser[i].input, 0, FALSE)
        /\ \A n \in 1..Len(parser[i].out) :
              (parser[i].out[n].kind = "Pair" /\ parser[i].out[n].key_span # None)
              => (parser[i].out[n].is_comment
                  <=> IsHashLine(parser[i].input,
                                 LineStartOf(parser[i].input,
                                             parser[i].out[n].key_span[1].start.offset)))

\* C20: commented-out pairs use exactly the active-line grammar.  With
\* include_comments = true, parser 1 over a text whose first line is X and
\* parser 2 over the same text with `# ` before it: the first entry of
\* parser 2 is a Pair if and only if the first entry of parser 1 is one, and
\* then it has the same key, value, quote type and is_exported, and
\* is_comment = true.  So `# K = v`, `# K= v` and `# K==v` yield a Comment.
C20_CommentedPairGrammar ==
    (/\ DOMAIN parser = {1, 2}
     /\ parser[2].input = <<HASH, SP>> \o parser[1].input
     /\ parser[2].options.include_comments
     /\ parser[1].last_call # "new" /\ parser[2].last_call # "new")
    => /\ (Len(parser[2].out) >= 1 /\ parser[2].out[1].kind = "Pair")
          <=> (Len(parser[1].out) >= 1 /\ parser[1].out[1].kind = "Pair")
       /\ (Len(parser[2].out) >= 1 /\ parser[2].out[1].kind = "Pair")
          => Content(parser[2].out[1]) = [Content(parser[1].out[1]) EXCEPT !.is_comment = TRUE]

\* the entries that come from no # line
RECURSIVE WithoutComments(_)
WithoutComments(entries) ==
    IF entries = <<>> THEN <<>>
    ELSE (IF FromComment(Head(entries)) THEN <<>> ELSE <<Head(entries)>>)
         \o WithoutComments(Tail(entries))

\* what parse() returns for the text of p when comment capture is off, that
\* is, when no speculative parse is ever attempted
UncapturedEntries(p) ==
    parse_internal([p EXCEPT !.cursor = 0, !.bom_checked = FALSE,
                             !.options.include_comments = FALSE], <<>>).entries

\* the entry is a Pair whose value holds a newline
SpansLines(e) ==
    e.kind = "Pair" /\ \E k \in 1..Len(e.value) : e.value[k] = LF

\* C21: the speculative rollback.  A Comment that next_entry returns spans
\* from its # to the newline of that physical line (the end of the input
\* when there is none) and the cursor is left at that newline, whatever the
\* failed speculative parse scanned; unless a quoted value that was closed
\* took lines in, every # line yields its one entry and the entries of the
\* other lines are those of a parse that never attempts the speculative
\* parse.
C21_SpeculativeRollback ==
    \A i \in DOMAIN parser :
        /\ (Returned(parser[i]) /\ parser[i].ret[1].kind = "Comment")
           => /\ parser[i].ret[1].span.start.offset >= parser[i].prev_cursor
              /\ At(parser[i].input, parser[i].ret[1].span.start.offset) = HASH
              /\ parser[i].ret[1].span.end.offset
                     = NewlineFrom(parser[i].input, parser[i].ret[1].span.start.offset)
              /\ parser[i].cursor = parser[i].ret[1].span.end.offset
        /\ (/\ Drained(parser[i])
            /\ parser[i].options.include_comments
            /\ \A n \in 1..Len(parser[i].out) : ~SpansLines(parser[i].out[n]))
           => /\ CommentEntryCount(parser[i].out) = HashLineCount(parser[i].input, 0, FALSE)
              /\ WithoutComments(parser[i].out) = UncapturedEntries(parser[i])

\* a Comment came out of a # line whose unclosed quote made the speculative
\* parse scan to the end of the input, and the line after it gave its Pair
C21_Witness ==
    \E i \in DOMAIN parser :
        /\ Drained(parser[i])
        /\ Len(parser[i].out) >= 2
        /\ parser[i].out[1].kind = "Comment"
        /\ Len(parser[i].input) > 5
        /\ SubSeq(parser[i].input, 1, 5) = <<HASH, 75, EQ, DQ, 120>>
        /\ parser[i].out[2].kind = "Pair"
        /\ ~parser[i].out[2].is_comment

\* the offset of the first byte at or after from that is no space or tab;
\* the length of the text when there is none
AfterBlanks(bytes, from) ==
    IF \E k \in from..(Len(bytes) - 1) : bytes[k + 1] \notin {SP, TAB}
    THEN CHOOSE k \in from..(Len(bytes) - 1) :
            bytes[k + 1] \notin {SP, TAB} /\ \A j \in from..(k - 1) : bytes[j + 1] \in {SP, TAB}
    ELSE Len(bytes)

\* where the assignment of the line that starts at from begins: after the
\* leading spaces and tabs and, for a # line, after the # and the spaces and
\* tabs that follow it
AssignmentStart(bytes, from) ==
    IF AfterBlanks(bytes, from) < Len(bytes) /\ bytes[AfterBlanks(bytes, from) + 1] = HASH
    THEN AfterBlanks(bytes, AfterBlanks(bytes, from) + 1)
    ELSE AfterBlanks(bytes, from)

\* the six bytes "export" stand at offset a and a space or tab follows them
ExportAt(bytes, a) ==
    /\ a + 6 < Len(bytes)
    /\ SubSeq(bytes, a + 1, a + 6) = <<101, 120, 112, 111, 114, 116>>
    /\ bytes[a + 7] \in {SP, TAB}

\* C22: the export prefix.  A Pair has is_exported = true if and only if
\* the assignment of its line begins with "export" followed by a space or
\* tab; then its key starts after the prefix and the spaces and tabs that
\* follow it, and otherwise at the start of the assignment, so that an
\* "export" followed by an identifier byte or by = is (part of) the key.
C22_ExportPrefix ==
    \A i \in DOMAIN parser : \A n \in 1..Len(parser[i].out) :
        (parser[i].out[n].kind = "Pair" /\ parser[i].out[n].key_span # None)
        => LET bytes == parser[i].input
               ks == parser[i].out[n].key_span[1].start.offset
               ke == parser[i].out[n].key_span[1].end.offset
               a == AssignmentStart(bytes, LineStartOf(bytes, ks))
           IN /\ parser[i].out[n].is_exported <=> ExportAt(bytes, a)
              /\ parser[i].out[n].key = SubSeq(bytes, ks + 1, ke)
              /\ ks = IF ExportAt(bytes, a) THEN AfterBlanks(bytes, a + 6) ELSE a

\* an exported Pair, after a Pair whose key is "exportK" and one whose key
\* is "export"
C22_Witness ==
    \E i \in DOMAIN parser :
        /\ parser[i].options.track_positions
        /\ Len(parser[i].out) = 3
        /\ \A n \in 1..3 : parser[i].out[n].kind = "Pair"
        /\ parser[i].out[1].key = <<101, 120, 112, 111, 114, 116, 75>>
        /\ ~parser[i].out[1].is_exported
        /\ parser[i].out[2].key = <<101, 120, 112, 111, 114, 116>>
        /\ ~parser[i].out[2].is_exported
        /\ parser[i].out[3].is_exported
        /\ parser[i].out[3].key = <<78>>

\* the offset of the first byte at or after from that is no identifier byte;
\* the length of the text when there is none
KeyEnd(bytes, from) ==
    IF \E k \in from..(Len(bytes) - 1) :
           bytes[k + 1] \notin (AsciiDigits \cup AsciiLetters \cup {95})
    THEN CHOOSE k \in from..(Len(bytes) - 1) :
            /\ bytes[k + 1] \notin (AsciiDigits \cup AsciiLetters \cup {95})
            /\ \A j \in from..(k - 1) : bytes[j + 1] \in (AsciiDigits \cup AsciiLetters \cup {95})
    ELSE Len(bytes)

\* the call began at a key that starts with a letter and is followed by =
StartedAtKey(p) ==
    /\ Returned(p)
    /\ p.prev_cursor < Len(p.input)
    /\ p.input[p.prev_cursor + 1] \in AsciiLetters
    /\ KeyEnd(p.input, p.prev_cursor) < Len(p.input)
    /\ p.input[KeyEnd(p.input, p.prev_cursor) + 1] = EQ

KeyStart(bytes, a) ==
    IF ExportAt(bytes, a) THEN AfterBlanks(bytes, a + 6) ELSE a

\* the call began at an assignment whose key starts with a letter
StartedAtLetter(p) ==
    /\ Returned(p)
    /\ p.prev_cursor < Len(p.input)
    /\ p.input[p.prev_cursor + 1] \in AsciiLetters
    /\ KeyStart(p.input, p.prev_cursor) < Len(p.input)
    /\ p.input[KeyStart(p.input, p.prev_cursor) + 1] \in AsciiLetters

\* C24: forbidden whitespace around the separator.  A valid key followed by
\* spaces or tabs and then = yields the Error ForbiddenWhitespace "between
\* key and equals"; a valid key followed by = and a space or tab yields the
\* Error ForbiddenWhitespace "after equals"; either call leaves the cursor
\* after the line, so that the line yields this one Error and no Pair.
C24_ForbiddenSeparatorWhitespace ==
    \A i \in DOMAIN parser :
        StartedAtLetter(parser[i])
        => LET bytes == parser[i].input
               ke == KeyEnd(bytes, KeyStart(bytes, parser[i].prev_cursor))
               eq == AfterBlanks(bytes, ke)
           IN /\ (ke < eq /\ eq < Len(bytes) /\ bytes[eq + 1] = EQ)
                 => /\ parser[i].ret[1].kind = "Error"
                    /\ parser[i].ret[1].err = "ForbiddenWhitespace"
                    /\ parser[i].ret[1].detail = "between key and equals"
                    /\ parser[i].cursor = AfterLineOf(bytes, ke)
              /\ (ke + 1 < Len(bytes) /\ bytes[ke + 1] = EQ /\ bytes[ke + 2] \in {SP, TAB})
                 => /\ parser[i].ret[1].kind = "Error"
                    /\ parser[i].ret[1].err = "ForbiddenWhitespace"
                    /\ parser[i].ret[1].detail = "after equals"
                    /\ parser[i].cursor = AfterLineOf(bytes, ke)

\* one Error of each location, the first for an exported key, and nothing
\* else from the two lines
C24_Witness ==
    \E i \in DOMAIN parser :
        /\ Drained(parser[i])
        /\ Len(parser[i].out) = 2
        /\ ExportAt(parser[i].input, 0)
        /\ parser[i].out[1].kind = "Error"
        /\ parser[i].out[1].detail = "between key and equals"
        /\ parser[i].out[2].kind = "Error"
        /\ parser[i].out[2].detail = "after equals"
        /\ parser[i].input[Len(parser[i].input)] = TAB

\* what the line that starts at offset from is to yield, ks the offset where
\* its key is to start: nothing when the line ends there or has a byte
\* there that is neither = nor an identifier byte, the Empty key Error when
\* = is there, the offset of its key otherwise
EntryOfLine(bytes, ks, nl) ==
    IF ks >= nl THEN <<>>
    ELSE IF bytes[ks + 1] = EQ
    THEN <<[kind |-> "Error", err |-> "Generic", offset |-> ks, detail |-> "Empty key"]>>
    ELSE IF bytes[ks + 1] \in (AsciiDigits \cup AsciiLetters \cup {95})
    THEN <<[key |-> SubSeq(bytes, ks + 1, KeyEnd(bytes, ks))]>>
    ELSE <<>>

\* ... and what the lines from offset from on are to yield, in order
RECURSIVE EntriesOfLines(_, _)
EntriesOfLines(bytes, from) ==
    IF from >= Len(bytes) THEN <<>>
    ELSE EntryOfLine(bytes, KeyStart(bytes, AfterBlanks(bytes, from)), NewlineFrom(bytes, from))
         \o EntriesOfLines(bytes, NewlineFrom(bytes, from) + 1)

\* the entries with a key reduced to their key
RECURSIVE KeysAndErrors(_)
KeysAndErrors(entries) ==
    IF entries = <<>> THEN <<>>
    ELSE <<IF Head(entries).kind = "Pair" THEN [key |-> Head(entries).key] ELSE Head(entries)>>
         \o KeysAndErrors(Tail(entries))

\* C25: empty key versus junk.  On texts without # lines, quotes and
\* continuations: a line on which no key byte is consumed yields the one
\* Error Generic "Empty key" when = stands where the key should start, also
\* after an export prefix, and no entry when any other byte stands there;
\* the lines after it yield their entries as they would without it.
C25_EmptyKeyVersusJunk ==
    \A i \in DOMAIN parser :
        /\ Drained(parser[i])
           => KeysAndErrors(parser[i].out) = EntriesOfLines(parser[i].input, 0)
        /\ (Returned(parser[i]) /\ parser[i].ret[1].kind = "Error")
           => /\ parser[i].ret[1].err = "Generic"
              /\ parser[i].input[parser[i].ret[1].offset + 1] = EQ
              /\ parser[i].cursor = AfterLineOf(parser[i].input, parser[i].ret[1].offset)

\* two junk lines, the second after an export prefix, gave no entry, and the
\* line after them the Empty key Error
C25_Witness ==
    \E i \in DOMAIN parser :
        /\ Drained(parser[i])
        /\ Len(parser[i].input) > 11
        /\ SubSeq(parser[i].input, 1, 11)
               = <<45, EQ, LF, 101, 120, 112, 111, 114, 116, TAB, DOLLAR>>
        /\ Len(parser[i].out) = 1
        /\ parser[i].out[1].kind = "Error"
        /\ parser[i].out[1].detail = "Empty key"
        /\ parser[i].out[1].offset = 12

\* C26: the span round trip.  For every Pair produced with track_positions
\* = true the source bytes of its key span are its key, and when its value
\* is unquoted and was taken from one line (borrowed from the source, no
\* continuation) the source bytes of its value span are its value, also on
\* a line with junk or an inline comment after the value.
C26_SpanRoundTrip ==
    \A i \in DOMAIN parser : \A n \in 1..Len(parser[i].out) :
        (parser[i].out[n].kind = "Pair" /\ parser[i].out[n].key_span # None)
        => /\ SubSeq(parser[i].input,
                     parser[i].out[n].key_span[1].start.offset + 1,
                     parser[i].out[n].key_span[1].end.offset) = parser[i].out[n].key
           /\ (parser[i].out[n].quote = "None" /\ ~parser[i].out[n].owned)
              => SubSeq(parser[i].input,
                        parser[i].out[n].value_span[1].start.offset + 1,
                        parser[i].out[n].value_span[1].end.offset) = parser[i].out[n].value

\* C27: presence of the position fields.  With track_positions = false
\* every Pair has key_span, value_span, equals_pos, open_quote_pos and
\* close_quote_pos absent; with track_positions = true every Pair has
\* key_span, value_span and equals_pos present, and open_quote_pos and
\* close_quote_pos present if and only if its quote type is Single or Double.
C27_PositionFieldsPresence ==
    \A i \in DOMAIN parser : \A n \in 1..Len(parser[i].out) :
        parser[i].out[n].kind = "Pair"
        => IF parser[i].options.track_positions
           THEN /\ parser[i].out[n].key_span # None
                /\ parser[i].out[n].value_span # None
                /\ parser[i].out[n].equals_pos # None
                /\ (parser[i].out[n].open_quote_pos # None)
                   <=> (parser[i].out[n].quote \in {"Single", "Double"})
                /\ (parser[i].out[n].close_quote_pos # None)
                   <=> (parser[i].out[n].quote \in {"Single", "Double"})
           ELSE /\ parser[i].out[n].key_span = None
                /\ parser[i].out[n].value_span = None
                /\ parser[i].out[n].equals_pos = None
                /\ parser[i].out[n].open_quote_pos = None
                /\ parser[i].out[n].close_quote_pos = None

\* with track_positions = true, an unquoted, a single-quoted and a
\* commented-out double-quoted Pair
C27_Witness ==
    \E i \in DOMAIN parser :
        /\ parser[i].options.track_positions
        /\ Len(parser[i].out) = 3
        /\ \A n \in 1..3 : parser[i].out[n].kind = "Pair"
        /\ parser[i].out[1].quote = "None"
        /\ parser[i].out[2].quote = "Single"
        /\ parser[i].out[3].quote = "Double"
        /\ parser[i].out[3].is_comment

\* the quote character of a quote type
QuoteByte(quote) == IF quote = "Single" THEN SQ ELSE DQ

\* C28: the positions point at the right source bytes.  For every Pair with
\* track_positions = true the source byte at equals_pos is =, key_span.end
\* is equals_pos, value_span.start is equals_pos + 1, value_span.start <=
\* value_span.end <= the length of the input, and for a quoted value the
\* source bytes at open_quote_pos and close_quote_pos are both the quote
\* character of its quote type.
C28_PositionsPointAtSource ==
    \A i \in DOMAIN parser : \A n \in 1..Len(parser[i].out) :
        (parser[i].out[n].kind = "Pair" /\ parser[i].out[n].equals_pos # None)
        => LET bytes == parser[i].input
               e == parser[i].out[n]
               eq == e.equals_pos[1].offset
           IN /\ eq < Len(bytes) /\ bytes[eq + 1] = EQ
              /\ e.key_span[1].end.offset = eq
              /\ e.value_span[1].start.offset = eq + 1
              /\ e.value_span[1].start.offset <= e.value_span[1].end.offset
              /\ e.value_span[1].end.offset <= Len(bytes)
              /\ e.quote \in {"Single", "Double"}
                 => /\ e.open_quote_pos[1].offset < Len(bytes)
                    /\ bytes[e.open_quote_pos[1].offset + 1] = QuoteByte(e.quote)
                    /\ e.close_quote_pos[1].offset < Len(bytes)
                    /\ e.close_quote_pos[1].offset > e.open_quote_pos[1].offset
                    /\ bytes[e.close_quote_pos[1].offset + 1] = QuoteByte(e.quote)

\* positions of a single-quoted Pair with junk after its closing quote, of
\* a double-quoted one with an escape, and of an exported one
C28_Witness ==
    \E i \in DOMAIN parser :
        /\ parser[i].options.track_positions
        /\ Len(parser[i].out) = 3
        /\ \A n \in 1..3 : parser[i].out[n].kind = "Pair"
        /\ parser[i].out[1].quote = "Single"
        /\ parser[i].out[1].close_quote_pos = Some(Position(4))
        /\ parser[i].out[2].quote = "Double"
        /\ parser[i].out[2].owned
        /\ parser[i].out[3].is_exported

\* the values of the Pairs with the key, in the order of the entries
RECURSIVE ValuesOf(_, _)
ValuesOf(entries, key) ==
    IF entries = <<>> THEN <<>>
    ELSE (IF Head(entries).kind = "Pair" /\ Head(entries).key = key
          THEN <<Head(entries).value>> ELSE <<>>)
         \o ValuesOf(Tail(entries), key)

\* the spans of the Comment entries, and the Error entries, in order
RECURSIVE SpansOf(_)
SpansOf(entries) ==
    IF entries = <<>> THEN <<>>
    ELSE (IF Head(entries).kind = "Comment" THEN <<Head(entries).span>> ELSE <<>>)
         \o SpansOf(Tail(entries))

RECURSIVE ErrorsOf(_)
ErrorsOf(entries) ==
    IF entries = <<>> THEN <<>>
    ELSE (IF Head(entries).kind = "Error" THEN <<Head(entries)>> ELSE <<>>)
         \o ErrorsOf(Tail(entries))

\* key and value of the Pairs that come from no # line, in order
RECURSIVE ActivePairs(_)
ActivePairs(entries) ==
    IF entries = <<>> THEN <<>>
    ELSE (IF Head(entries).kind = "Pair" /\ ~Head(entries).is_comment
          THEN <<[key |-> Head(entries).key, value |-> Head(entries).value]>> ELSE <<>>)
         \o ActivePairs(Tail(entries))

\* key and value of the lines KEY=value from offset from on, the key
\* starting with a letter at the start of the line and the value being the
\* rest of the line
RECURSIVE AssignmentsOf(_, _)
AssignmentsOf(bytes, from) ==
    IF from >= Len(bytes) THEN <<>>
    ELSE (IF /\ bytes[from + 1] \in AsciiLetters
             /\ KeyEnd(bytes, from) < NewlineFrom(bytes, from)
             /\ bytes[KeyEnd(bytes, from) + 1] = EQ
          THEN <<[key |-> SubSeq(bytes, from + 1, KeyEnd(bytes, from)),
                  value |-> SubSeq(bytes, KeyEnd(bytes, from) + 2, NewlineFrom(bytes, from))]>>
          ELSE <<>>)
         \o AssignmentsOf(bytes, NewlineFrom(bytes, from) + 1)

\* the keys the texts use, and one they do not
EnvKeys == {<<75>>, <<78>>, <<99>>}

\* C29: the lookup builder is last-write-wins and does not abort.  For the
\* Environment built from the Vec that parse() returned: get(k) is the
\* value of the last Pair with key k in the Vec and absent when there is
\* none, whatever Errors stand before that Pair; the comment list is the
\* spans of the Comment entries in order and the error list the Error
\* entries in order; and the Vec itself holds every assignment of the text,
\* duplicates included, in source order.
C29_LastWriteWins ==
    \A i \in DOMAIN parser :
        parser[i].last_call = "from_entries"
        => LET entries == parser[i].vec[1]
               env == parser[i].env[1]
           IN /\ \A k \in EnvKeys :
                    get(env, k) = IF ValuesOf(entries, k) = <<>> THEN None
                                  ELSE Some(ValuesOf(entries, k)[Len(ValuesOf(entries, k))])
              /\ env.comments = SpansOf(entries)
              /\ env.errors = ErrorsOf(entries)
              /\ parser[i].prev_cursor = 0
                 => ActivePairs(entries) = AssignmentsOf(parser[i].input, 0)

\* K=a, an Error, K=b: the table built from the three entries gives b
C29_Witness ==
    \E i \in DOMAIN parser :
        /\ parser[i].last_call = "from_entries"
        /\ Len(parser[i].vec[1]) = 3
        /\ parser[i].vec[1][1].kind = "Pair" /\ parser[i].vec[1][1].value = <<97>>
        /\ parser[i].vec[1][2].kind = "Error"
        /\ parser[i].vec[1][3].kind = "Pair" /\ parser[i].vec[1][3].value = <<98>>
        /\ get(parser[i].env[1], <<75>>) = Some(<<98>>)
        /\ Len(parser[i].env[1].errors) = 1

\* the fixed description, location or expectation strings of an Error kind
FixedDetails(err) ==
    CASE err = "UnclosedQuote" -> {"single", "double"}
      [] err = "InvalidKey" -> {"Key starts with digit"}
      [] err = "ForbiddenWhitespace" -> {"between key and equals", "after equals"}
      [] err = "DoubleEquals" -> {""}
      [] err = "InvalidBom" -> {""}
      [] err = "Expected" -> {"'='"}
      [] err = "Generic" -> {"Empty key"}

\* C30: error messages leak no input bytes.  Every Error the parser makes
\* carries one of the fixed strings of its kind, so that its rendered
\* message is made of the kind's fixed text, that string and the decimal
\* offset; and a text and the same text with other letters in its keys and
\* values give, entry for entry, Errors with identical messages.
C30_MessagesLeakNoInput ==
    /\ \A i \in DOMAIN parser : \A n \in 1..Len(parser[i].out) :
          parser[i].out[n].kind = "Error"
          => parser[i].out[n].detail \in FixedDetails(parser[i].out[n].err)
    /\ (DOMAIN parser = {1, 2} /\ parser[2].input = Rename(parser[1].input))
       => \A n \in 1..Len(parser[1].out) :
             (n <= Len(parser[2].out) /\ parser[1].out[n].kind = "Error")
             => /\ parser[2].out[n].kind = "Error"
                /\ Display(parser[2].out[n]) = Display(parser[1].out[n])

\* a ForbiddenWhitespace and an InvalidKey Error came out of both texts,
\* which differ in their letters
C30_Witness ==
    /\ DOMAIN parser = {1, 2}
    /\ parser[2].input # parser[1].input
    /\ Len(parser[1].out) = 2 /\ Len(parser[2].out) = 2
    /\ parser[1].out[1].kind = "Error" /\ parser[1].out[1].err = "ForbiddenWhitespace"
    /\ parser[1].out[2].kind = "Error" /\ parser[1].out[2].err = "InvalidKey"
    /\ Display(parser[2].out[2])
           = <<"Invalid key at byte ", "5", ": ", "Key starts with digit">>

\* what parse() returns on a new Parser over the text and options of p
AloneEntries(p) == parse_internal(with_options(p.input, p.options, FALSE), <<>>).entries

\* the entries p has yielded are the first of the sequence alone, and all
\* of it once p is drained
YieldsPrefixOf(p, alone) ==
    /\ Len(p.out) <= Len(alone)
    /\ p.out = SubSeq(alone, 1, Len(p.out))
    /\ Drained(p) => p.out = alone

HoldsByte(bytes, from, to, b) == \E k \in from..(to - 1) : bytes[k + 1] = b

\* C32: view versus owned value.  A value is an owned string exactly when
\* it is double-quoted with a backslash before its closing quote, or
\* unquoted and continued over a line end; every other value (single-quoted,
\* double-quoted without backslash, unquoted from one line) is a borrowed
\* view of the input.
C32_ViewVersusOwned ==
    \A i \in DOMAIN parser : \A n \in 1..Len(parser[i].out) :
        (parser[i].out[n].kind = "Pair" /\ parser[i].out[n].value_span # None)
        => LET bytes == parser[i].input
               e == parser[i].out[n]
               s == e.value_span[1].start.offset
               t == e.value_span[1].end.offset
           IN e.owned <=> \/ e.quote = "Double" /\ HoldsByte(bytes, s + 1, t - 1, BSL)
                          \/ e.quote = "None" /\ (\/ HoldsByte(bytes, s, t, LF)
                                                   \/ HoldsByte(bytes, s, t, CR))

\* the offset of the first byte at or after from that is no =; the length
\* of the text when there is none
AfterEquals(bytes, from) ==
    IF \E k \in from..(Len(bytes) - 1) : bytes[k + 1] # EQ
    THEN CHOOSE k \in from..(Len(bytes) - 1) :
            bytes[k + 1] # EQ /\ \A j \in from..(k - 1) : bytes[j + 1] = EQ
    ELSE Len(bytes)

\* a quote stands at offset v and is never closed: no later single quote,
\* or no later double quote outside a backslash pair
UnclosedAt(bytes, v) ==
    /\ v < Len(bytes)
    /\ bytes[v + 1] \in {SQ, DQ}
    /\ IF bytes[v + 1] = SQ THEN \A m \in (v + 1)..(Len(bytes) - 1) : bytes[m + 1] # SQ
       ELSE ~RefDecode(bytes, v + 1, <<>>).closed

\* the rules the assignment whose key starts at offset ks breaks, each
\* judged on its own, in the order of the checks: empty key, digit-first
\* key, blanks between key and =, no =, a second =, blanks after the =,
\* an unclosed quote
BrokenRules(bytes, ks) ==
    LET ke == KeyEnd(bytes, ks)
        eq == AfterBlanks(bytes, ke)
        r == AfterEquals(bytes, eq)
    IN << ke = ks,
          ks < Len(bytes) /\ bytes[ks + 1] \in AsciiDigits,
          ke < eq /\ r > eq,
          r = eq,
          r > eq + 1,
          r > eq /\ r < Len(bytes) /\ bytes[r + 1] \in {SP, TAB},
          r > eq /\ UnclosedAt(bytes, AfterBlanks(bytes, r)) >>

\* the first rule broken, 0 when none is
FirstBroken(rules) ==
    IF \E k \in 1..Len(rules) : rules[k]
    THEN CHOOSE k \in 1..Len(rules) : rules[k] /\ \A j \in 1..(k - 1) : ~rules[j]
    ELSE 0

\* the kind and the fixed text of the Error of each rule
RuleError ==
    << <<"Generic", "Empty key">>,
       <<"InvalidKey", "Key starts with digit">>,
       <<"ForbiddenWhitespace", "between key and equals">>,
       <<"Expected", "'='">>,
       <<"DoubleEquals", "">>,
       <<"ForbiddenWhitespace", "after equals">>,
       <<"UnclosedQuote", "single">>,
       <<"UnclosedQuote", "double">> >>

\* the call began at the first byte of a line, at a key byte or at =
StartedAtAssignment(p) ==
    /\ Returned(p)
    /\ p.prev_cursor < Len(p.input)
    /\ p.prev_cursor = 0 \/ p.input[p.prev_cursor] = LF
    /\ p.input[p.prev_cursor + 1] \in (AsciiDigits \cup AsciiLetters \cup {95, EQ})

ConsumedRange(e) ==
    IF e.kind = "Pair"
    THEN [start |-> e.key_span[1].start.offset, end |-> e.value_span[1].end.offset]
    ELSE [start |-> e.span.start.offset, end |-> e.span.end.offset]

\* the ranges of the Pairs and Comments among the entries, in their order
RECURSIVE ConsumedRanges(_)
ConsumedRanges(entries) ==
    IF entries = <<>> THEN <<>>
    ELSE IF entries[1].kind = "Error" THEN ConsumedRanges(Tail(entries))
    ELSE <<ConsumedRange(entries[1])>> \o ConsumedRanges(Tail(entries))

\* C34: source order and disjoint consumption.  With track_positions and
\* include_comments both true, of any two consecutive Pair or Comment
\* entries of the output the earlier one's range ends at or before the
\* offset where the later one's range starts, so that no byte of the input
\* belongs to two entries.
C34_SourceOrder ==
    \A i \in DOMAIN parser :
        (parser[i].options.track_positions /\ parser[i].options.include_comments)
        => LET ranges == ConsumedRanges(parser[i].out)
           IN \A k \in 1..(Len(ranges) - 1) :
                 /\ ranges[k].start <= ranges[k].end
                 /\ ranges[k].end <= ranges[k + 1].start

\* a commented-out Pair, a Pair whose double-quoted value went through the
\* slow path, and the Comment of a # line whose reading as a pair was rolled
\* back, in source order
C34_Witness ==
    \E i \in DOMAIN parser :
        /\ parser[i].options.track_positions
        /\ parser[i].options.include_comments
        /\ Len(parser[i].out) = 3
        /\ parser[i].out[1].kind = "Pair"
        /\ parser[i].out[1].is_comment
        /\ parser[i].out[2].kind = "Pair"
        /\ parser[i].out[2].quote = "Double"
        /\ parser[i].out[2].owned
        /\ parser[i].out[3].kind = "Comment"
        /\ parser[i].out[3].span.start.offset + 3 < Len(parser[i].input)
        /\ parser[i].input[parser[i].out[3].span.start.offset + 4] = DQ

\* C35: comment capture does not change the active entries.  Once the
\* input is read with include_comments = true, its Errors and its Pairs with
\* is_comment = false are, in order, the entries that the same input yields
\* with include_comments = false, a # line with an opening quote or a
\* continuation backslash included.
C35_CaptureKeepsActiveEntries ==
    \A i \in DOMAIN parser :
        (Drained(parser[i]) /\ parser[i].options.include_comments)
        => \E active \in {UncapturedEntries(parser[i])} :
              WithoutComments(parser[i].out) = active

\* the entry without the five optional position fields of a Pair
ErasePositions(e) ==
    IF e.kind = "Pair"
    THEN [e EXCEPT !.key_span = None, !.value_span = None, !.open_quote_pos = None,
                   !.close_quote_pos = None, !.equals_pos = None]
    ELSE e

\* what parse() returns for the text of p when position tracking is off
UntrackedEntries(p) ==
    parse_internal([p EXCEPT !.cursor = 0, !.bom_checked = FALSE,
                             !.options.track_positions = FALSE], <<>>).entries

\* C36: position tracking does not change content.  Once the input is read
\* with track_positions = true, under either include_comments setting, its
\* entries with the five optional position fields of each Pair erased are
\* the entries that the same input yields with track_positions = false: the
\* same kinds, keys, values, quote types, flags, Comment spans and Errors.
C36_TrackingKeepsContent ==
    \A i \in DOMAIN parser :
        (Drained(parser[i]) /\ parser[i].options.track_positions)
        => \E untracked \in {UntrackedEntries(parser[i])} :
              /\ Len(parser[i].out) = Len(untracked)
              /\ \A n \in 1..Len(untracked) :
                    ErasePositions(parser[i].out[n]) = untracked[n]

\* with track_positions = true, an exported Pair with its positions, a
\* Comment and an Error
C36_Witness ==
    \E i \in DOMAIN parser :
        /\ Drained(parser[i])
        /\ parser[i].options.track_positions
        /\ Len(parser[i].out) = 3
        /\ parser[i].out[1].kind = "Pair"
        /\ parser[i].out[1].is_exported
        /\ parser[i].out[1].key_span # None
        /\ parser[i].out[2].kind = "Comment"
        /\ parser[i].out[3].kind = "Error"

\* the bytes >= 0x80 of a text, in their order
RECURSIVE HighBytes(_)
HighBytes(bytes) ==
    IF bytes = <<>> THEN <<>>
    ELSE (IF Head(bytes) >= 128 THEN <<Head(bytes)>> ELSE <<>>) \o HighBytes(Tail(bytes))

\* the value of the line K="... is closed and a backslash stands before its
\* closing quote, so that the value is built byte by byte
TakesSlowPath(bytes) ==
    /\ Len(bytes) >= 3
    /\ bytes[3] = DQ
    /\ RefDecode(bytes, 3, <<>>).closed
    /\ \E k \in 4..Len(bytes) : bytes[k] = BSL /\ \A j \in 4..(k - 1) : bytes[j] # DQ

\* C37: the slow path of the double-quoted value corrupts no data.  For a
\* closed double-quoted value that holds a backslash, the bytes of the
\* input that belong to no recognized escape, those >= 0x80 of a multi-byte
\* character included, stand unchanged and in order in the value of the
\* Pair: the value is the content with the escapes decoded, as the
\* zero-copy path would give it.
C37_SlowPathKeepsBytes ==
    \A i \in DOMAIN parser :
        (parser[i].last_call # "new" /\ TakesSlowPath(parser[i].input))
        => /\ Len(parser[i].out) >= 1
           /\ parser[i].out[1].kind = "Pair"
           /\ HighBytes(parser[i].out[1].value) = HighBytes(parser[i].input)
           /\ parser[i].out[1].value = RefDecode(parser[i].input, 3, <<>>).value

\* the Environment of p is the one KorniBuilder::parse builds: parse() was
\* the first call on the parser and from_entries consumed the Vec it returned
BuiltByBuilder(p) ==
    /\ p.last_call = "from_entries"
    /\ p.prev_cursor = 0
    /\ p.out = p.vec[1]

\* C38: commented-out pairs never shadow active values in the lookup table.
\* For every key, get on the Environment built with preserve_comments
\* enabled gives what get gives on the Environment built from the same
\* input with preserve_comments disabled.
C38_CommentsNeverShadow ==
    \A i \in DOMAIN parser :
        (BuiltByBuilder(parser[i]) /\ parser[i].options.include_comments)
        => \E plain \in {KorniBuilder_parse(parser[i].input,
                            [parser[i].options EXCEPT !.include_comments = FALSE])} :
              \A k \in EnvKeys : get(parser[i].env[1], k) = get(plain, k)

\* what an Option holds, as a set
Present(opt) == {opt[k] : k \in DOMAIN opt}

\* the offsets an entry stores: that of an Error, the two ends of the span
\* of a Comment, and the ends of the spans and the positions of a Pair
StoredOffsets(e) ==
    IF e.kind = "Error" THEN {e.offset}
    ELSE IF e.kind = "Comment" THEN {e.span.start.offset, e.span.end.offset}
    ELSE {s.start.offset : s \in Present(e.key_span) \cup Present(e.value_span)}
         \cup {s.end.offset : s \in Present(e.key_span) \cup Present(e.value_span)}
         \cup {q.offset : q \in Present(e.open_quote_pos) \cup Present(e.close_quote_pos)
                                   \cup Present(e.equals_pos)}

\* the spans an entry stores
StoredSpans(e) ==
    IF e.kind = "Error" THEN {}
    ELSE IF e.kind = "Comment" THEN {e.span}
    ELSE Present(e.key_span) \cup Present(e.value_span)

\* C39: bounds safety.  In every state the cursor is at most the length of
\* the input, and every entry returned so far stores only offsets that are
\* at most the length of the input, in spans whose start is at most their
\* end: next_entry and the three value sub-parsers read no byte and take no
\* slice past the end of the input.
C39_BoundsSafety ==
    \A i \in DOMAIN parser :
        /\ parser[i].cursor <= Len(parser[i].input)
        /\ parser[i].prev_cursor <= parser[i].cursor
        /\ \A n \in 1..Len(parser[i].out) :
              /\ \A off \in StoredOffsets(parser[i].out[n]) :
                    off >= 0 /\ off <= Len(parser[i].input)
              /\ \A s \in StoredSpans(parser[i].out[n]) : s.start.offset <= s.end.offset

\* an Error whose offset is the length of the input, returned by a call
\* that left the cursor there, after a Pair with its positions
C39_Witness ==
    \E i \in DOMAIN parser :
        /\ Returned(parser[i])
        /\ parser[i].cursor = Len(parser[i].input)
        /\ parser[i].ret[1].kind = "Error"
        /\ parser[i].ret[1].offset = Len(parser[i].input)
        /\ Len(parser[i].out) >= 2
        /\ parser[i].out[1].kind = "Pair"
        /\ parser[i].out[1].value_span # None

====
